---- MODULE Spec2Model ----
(***************************************************************************)
(* Coverage engine of rustscript-studio (crates/devtools/coverage):        *)
(* the thread-local collector (collector.rs), CoverageData (data.rs),      *)
(* CoverageMap (map.rs) and the report synthesizer (report.rs); and the    *)
(* editor state of the studio: StudioStore (rsc-studio/store.rs),          *)
(* SortableContext (rsc-dnd/sortable.rs), FlowCanvas (rsc-flow/canvas.rs). *)
(*                                                                         *)
(* The only memory shared between threads is the atomic COVERAGE_ENABLED.  *)
(* Executions over a single atomic location are coherent, so every         *)
(* execution of the collector is an interleaving of its atomic accesses;   *)
(* the Relaxed load in record_hit is one step of that interleaving and the *)
(* thread-local update that follows it is another.                         *)
(***************************************************************************)
EXTENDS Integers, Sequences, FiniteSets, Bags, TLC

VARIABLES
    enabled,     \* COVERAGE_ENABLED
    clock,       \* the value current_time_millis() returns now
    data,        \* COVERAGE_DATA, one slot per thread (None until first use)
    pc,          \* per thread: the call it is in the middle of
    guards,      \* bag of the CoverageGuard values alive
    exported,    \* per thread: the value its last export_coverage() returned
    taken,       \* history: record_hit calls whose flag load read true
    sinceExport, \* history: the part of taken made after the last export
    hits,        \* history: record_hit calls of the run whose flag load read true
    last,        \* history: the operation that produced this state
    merged,      \* the CoverageData the exports are merged into
    mergedFrom,  \* the threads whose export has been merged
    ma, mb, mc,  \* operands of CoverageData::merge
    mout,        \* results of the merges applied to ma, mb, mc
    cmap,        \* the CoverageMap of one source file
    rdata,       \* the CoverageData of the run over that file
    report,      \* the CoverageReport made from cmap and rdata
    enumerated,  \* history: the order map.branch_probes() yielded for report
    reports,     \* the slice of CoverageReport handed to aggregate_summaries
    aggregate,   \* the CoverageSummary aggregate_summaries returned
    summary,     \* a CoverageSummary whose percentages are asked for
    percents,    \* the values line_percent, function_percent, branch_percent returned
    maps,        \* a CoverageMapSet
    got,         \* the file last looked up in maps and what get() returned
    generated,   \* the Vec generate_reports returned
    arg_id,      \* the probe id the instrumented code reports (64 bits)
    arg_kind,    \* the probe kind it reports (an i32)
    encoded,     \* the two packed into the argument of __coverage_hit
    called,      \* which of __coverage_hit and __coverage_hit_ex have run
    imap,        \* a CoverageMap under instrumentation
    added,       \* history: per probe id, the location of the last add_probe
    adds,        \* history: the number of add_probe calls
    store,       \* a StudioStore
    store_last,  \* history: the last operation on the store
    sortable,    \* a SortableContext (None before new)
    sort_result, \* what the last end() returned
    trail,       \* history: the last three calls on the SortableContext
    given,       \* history: the items the SortableContext was made of
    canvas,      \* a FlowCanvas
    canvas_last, \* history: the last operation on the canvas
    freports,    \* the reports generated for the files of a project
    total,       \* what aggregate_summaries returned for them
    running,     \* a summary that others are merged into
    merges       \* history: the number of merges into running

collVars == <<enabled, clock, data, pc, guards, exported, taken, sinceExport, hits, last>>
mergeVars == <<merged, mergedFrom>>
algVars == <<ma, mb, mc, mout>>
reportVars == <<cmap, rdata, report, enumerated>>
sumVars == <<reports, aggregate>>
pctVars == <<summary, percents>>
setVars == <<maps, got, generated>>
encVars == <<arg_id, arg_kind, encoded, called>>
mapVars == <<imap, added, adds>>
storeVars == <<store, store_last>>
sortVars == <<sortable, sort_result, trail, given>>
canvasVars == <<canvas, canvas_last>>
appVars == <<storeVars, sortVars, canvasVars>>
totVars == <<freports, total, running, merges>>
libVars == <<sumVars, pctVars, setVars, encVars, mapVars, appVars, totVars>>
vars == <<collVars, mergeVars, algVars, reportVars, libVars>>

---------------------------------------------------------------------------
(* Bounds *)

\* record_hit calls of one run that find collection enabled
MaxHits == 3
\* largest clock value
MaxTime == 2
\* CoverageGuard values alive at once
MaxGuards == 2

\* largest count of a probe in an operand of merge
MaxOperandCount == 1

\* FunctionInfo entries of a map
MaxFunctions == 2
\* hits in the data a report is made from
MaxReportHits == 2

\* the threads (execution contexts)
Contexts == {"A", "B"}
\* the probe ids instrumented code reports
ProbeIds == {1, 2}

---------------------------------------------------------------------------
(* data.rs *)

LINE == 0
FUNCTION_ENTRY == 1
BRANCH_TRUE == 2
BRANCH_FALSE == 3

\* the kind the instrumentation gave each probe id
KindOf(p) == IF p = 1 THEN LINE ELSE FUNCTION_ENTRY

None == <<>>
Some(x) == <<x>>
Unwrap(o) == o[1]

\* a ProbeHit that starts uncounted
ProbeHit_new_uncounted(probe_id, kind) ==
    [probe_id |-> probe_id, kind |-> kind, count |-> 0]

ProbeHit_new(probe_id, kind) ==
    [probe_id |-> probe_id, kind |-> kind, count |-> 1]

\* new stamping end_time as it stamps start_time
CoverageData_new_stamped(now) ==
    [probe_hits |-> <<>>, start_time |-> now, end_time |-> now]

CoverageData_new(now) ==
    [probe_hits |-> <<>>, start_time |-> now, end_time |-> 0]

\* record_hit without the and_modify: a probe already present keeps its count
CoverageData_record_hit_insert_only(self, probe_id, kind) ==
    [self EXCEPT !.probe_hits =
        IF probe_id \in DOMAIN @
        THEN @
        ELSE (probe_id :> ProbeHit_new(probe_id, kind)) @@ @]

CoverageData_record_hit(self, probe_id, kind) ==
    [self EXCEPT !.probe_hits =
        IF probe_id \in DOMAIN @
        THEN [@ EXCEPT ![probe_id].count = @ + 1]
        ELSE (probe_id :> ProbeHit_new(probe_id, kind)) @@ @]

get_hit_count(self, probe_id) ==
    IF probe_id \in DOMAIN self.probe_hits
    THEN self.probe_hits[probe_id].count
    ELSE 0

finish(self, now) == [self EXCEPT !.end_time = now]

\* reset that forgets to clear end_time
CoverageData_reset_keeps_end(self, now) ==
    [self EXCEPT !.probe_hits = <<>>, !.start_time = now]

CoverageData_reset(self, now) ==
    [self EXCEPT !.probe_hits = <<>>, !.start_time = now, !.end_time = 0]

\* merge with the and_modify left out: a probe present on both sides keeps
\* the count of self
merge_first_wins(self, other) ==
    [probe_hits |->
        [p \in DOMAIN self.probe_hits \cup DOMAIN other.probe_hits |->
            IF p \in DOMAIN self.probe_hits
            THEN self.probe_hits[p]
            ELSE other.probe_hits[p]],
     start_time |-> IF other.start_time < self.start_time
                    THEN other.start_time ELSE self.start_time,
     end_time |-> IF other.end_time > self.end_time
                  THEN other.end_time ELSE self.end_time]

\* merge with insert in place of entry().and_modify(): a probe present on
\* both sides gets the count of other
merge_overwrite(self, other) ==
    [probe_hits |->
        [p \in DOMAIN self.probe_hits \cup DOMAIN other.probe_hits |->
            IF p \in DOMAIN other.probe_hits
            THEN other.probe_hits[p]
            ELSE self.probe_hits[p]],
     start_time |-> IF other.start_time < self.start_time
                    THEN other.start_time ELSE self.start_time,
     end_time |-> IF other.end_time > self.end_time
                  THEN other.end_time ELSE self.end_time]

merge(self, other) ==
    [probe_hits |->
        [p \in DOMAIN self.probe_hits \cup DOMAIN other.probe_hits |->
            IF p \in DOMAIN self.probe_hits
            THEN IF p \in DOMAIN other.probe_hits
                 THEN [self.probe_hits[p] EXCEPT
                          !.count = @ + other.probe_hits[p].count]
                 ELSE self.probe_hits[p]
            ELSE other.probe_hits[p]],
     start_time |-> IF other.start_time < self.start_time
                    THEN other.start_time ELSE self.start_time,
     end_time |-> IF other.end_time > self.end_time
                  THEN other.end_time ELSE self.end_time]

probes_hit(self) == Cardinality(DOMAIN self.probe_hits)

---------------------------------------------------------------------------
(* map.rs *)

\* the probe ids, lines and functions of the instrumented file
MapProbeIds == {1, 2, 3}
Lines == {10, 11}
Kinds == {LINE, FUNCTION_ENTRY, BRANCH_TRUE, BRANCH_FALSE}

ProbeLocation(line, kind) ==
    [line |-> line, column |-> 1, kind |-> kind, function |-> None,
     file |-> "test.rsx"]

FunctionInfo(name, start_line, end_line, entry_probe) ==
    [name |-> name, start_line |-> start_line, end_line |-> end_line,
     entry_probe |-> entry_probe]

FunctionInfos ==
    {FunctionInfo("main", 10, 11, 1), FunctionInfo("helper", 11, 11, 3)}

CoverageMap_new(file) ==
    [probes |-> <<>>, functions |-> <<>>, file |-> file, total_probes |-> 0]

\* add_probe counting the calls instead of the keys
CoverageMap_add_probe_counting(self, probe_id, location) ==
    LET probes == (probe_id :> location) @@ self.probes IN
    [self EXCEPT !.probes = probes, !.total_probes = self.total_probes + 1]

CoverageMap_add_probe(self, probe_id, location) ==
    LET probes == (probe_id :> location) @@ self.probes IN
    [self EXCEPT !.probes = probes, !.total_probes = Cardinality(DOMAIN probes)]

CoverageMap_add_function(self, info) ==
    [self EXCEPT !.functions = Append(@, info)]

get_location(self, probe_id) ==
    IF probe_id \in DOMAIN self.probes THEN Some(self.probes[probe_id]) ELSE None

\* the orders in which a HashMap with key set S may be iterated
IterationOrders(S) ==
    {f \in [1..Cardinality(S) -> S] : {f[i] : i \in DOMAIN f} = S}

\* line_probes() and branch_probes(): the ids that self.probes.iter() yields,
\* in the order iter, filtered by kind
line_probes_any_kind(self, iter) == iter

line_probes(self, iter) ==
    SelectSeq(iter, LAMBDA id : self.probes[id].kind = LINE)

branch_probes(self, iter) ==
    SelectSeq(iter, LAMBDA id : self.probes[id].kind = BRANCH_TRUE
                                  \/ self.probes[id].kind = BRANCH_FALSE)

CoverageMapSet_new == [maps |-> <<>>]

\* maps.insert(map.file.clone(), map): a map of the same file is replaced
CoverageMapSet_add(self, map) ==
    [self EXCEPT !.maps =
        (map.file :> map) @@ [f \in DOMAIN self.maps \ {map.file} |-> self.maps[f]]]

CoverageMapSet_get(self, file) ==
    IF file \in DOMAIN self.maps THEN Some(self.maps[file]) ELSE None

\* error.rs: the error value "no coverage map found for file"
NoMapForFile(file) == [error |-> "NoMapForFile", file |-> file]

---------------------------------------------------------------------------
(* report.rs *)

Max(a, b) == IF a > b THEN a ELSE b

Front(seq) == SubSeq(seq, 1, Len(seq) - 1)
Last(seq) == seq[Len(seq)]

\* LineCoverage with the test hit_count >= 0
LineCoverage_always(line, hit_count) ==
    [line |-> line, hit_count |-> hit_count, covered |-> hit_count >= 0]

LineCoverage(line, hit_count) ==
    [line |-> line, hit_count |-> hit_count, covered |-> hit_count > 0]

RECURSIVE line_hits_sum(_, _, _)
\* line_hits adding the counts of the probes of a line
line_hits_sum(map, cov, probes) ==
    IF probes = <<>> THEN <<>>
    ELSE LET acc == line_hits_sum(map, cov, Front(probes))
             line == map.probes[Last(probes)].line
             count == get_hit_count(cov, Last(probes))
         IN IF line \in DOMAIN acc
            THEN [acc EXCEPT ![line] = @ + count]
            ELSE (line :> count) @@ acc

RECURSIVE line_hits(_, _, _)
\* the loop over map.line_probes(): the HashMap line -> hit count
line_hits(map, cov, probes) ==
    IF probes = <<>> THEN <<>>
    ELSE LET acc == line_hits(map, cov, Front(probes))
             line == map.probes[Last(probes)].line
             count == get_hit_count(cov, Last(probes))
         IN IF line \in DOMAIN acc
            THEN [acc EXCEPT ![line] = Max(@, count)]
            ELSE (line :> count) @@ acc

\* the FunctionCoverage pushed for func, with the test hit_count >= 0
function_coverage_always(func, cov) ==
    LET hit_count == get_hit_count(cov, func.entry_probe) IN
    [name |-> func.name, start_line |-> func.start_line,
     end_line |-> func.end_line, hit_count |-> hit_count,
     covered |-> hit_count >= 0]

\* the FunctionCoverage pushed for func
function_coverage(func, cov) ==
    LET hit_count == get_hit_count(cov, func.entry_probe) IN
    [name |-> func.name, start_line |-> func.start_line,
     end_line |-> func.end_line, hit_count |-> hit_count,
     covered |-> hit_count > 0]

RECURSIVE branch_map(_, _)
\* the loop over map.branch_probes(): line -> the (probe_id, kind) pushed
branch_map(map, probes) ==
    IF probes = <<>> THEN <<>>
    ELSE LET acc == branch_map(map, Front(probes))
             probe_id == Last(probes)
             location == map.probes[probe_id]
         IN IF location.line \in DOMAIN acc
            THEN [acc EXCEPT ![location.line] = Append(@, <<probe_id, location.kind>>)]
            ELSE (location.line :> << <<probe_id, location.kind>> >>) @@ acc

\* line_branches pairing every true probe with the first false probe
line_branches_unpaired(line, probes, cov) ==
    LET true_probes == SelectSeq(probes, LAMBDA pr : pr[2] = BRANCH_TRUE)
        false_probes == SelectSeq(probes, LAMBDA pr : pr[2] = BRANCH_FALSE)
    IN [i \in 1..Len(true_probes) |->
          LET true_count == get_hit_count(cov, true_probes[i][1])
              false_count == IF false_probes # <<>>
                             THEN get_hit_count(cov, false_probes[1][1])
                             ELSE 0
          IN [line |-> line, branch_index |-> i - 1,
              true_count |-> true_count, false_count |-> false_count,
              fully_covered |-> true_count > 0 /\ false_count > 0]]

\* the BranchCoverage entries pushed for one line of branch_map
line_branches(line, probes, cov) ==
    LET true_probes == SelectSeq(probes, LAMBDA pr : pr[2] = BRANCH_TRUE)
        false_probes == SelectSeq(probes, LAMBDA pr : pr[2] = BRANCH_FALSE)
    IN [i \in 1..Len(true_probes) |->
          LET true_count == get_hit_count(cov, true_probes[i][1])
              false_count == IF i <= Len(false_probes)
                             THEN get_hit_count(cov, false_probes[i][1])
                             ELSE 0
          IN [line |-> line, branch_index |-> i - 1,
              true_count |-> true_count, false_count |-> false_count,
              fully_covered |-> true_count > 0 /\ false_count > 0]]

RECURSIVE branches(_, _, _)
\* the loop over branch_map, which yields its lines in the order line_iter
branches(bmap, line_iter, cov) ==
    IF line_iter = <<>> THEN <<>>
    ELSE branches(bmap, Front(line_iter), cov)
            \o line_branches(Last(line_iter), bmap[Last(line_iter)], cov)

CoverageSummary_default ==
    [total_lines |-> 0, covered_lines |-> 0,
     total_functions |-> 0, covered_functions |-> 0,
     total_branches |-> 0, covered_branches |-> 0]

\* calculate_summary counting a branch as covered when either path was taken
calculate_summary_either_path(self) ==
    [total_lines |-> Cardinality(DOMAIN self.lines),
     covered_lines |-> Cardinality({l \in DOMAIN self.lines : self.lines[l].covered}),
     total_functions |-> Len(self.functions),
     covered_functions |->
        Cardinality({i \in DOMAIN self.functions : self.functions[i].covered}),
     total_branches |-> Len(self.branches),
     covered_branches |->
        Cardinality({i \in DOMAIN self.branches :
            self.branches[i].true_count > 0 \/ self.branches[i].false_count > 0})]

calculate_summary(self) ==
    [total_lines |-> Cardinality(DOMAIN self.lines),
     covered_lines |-> Cardinality({l \in DOMAIN self.lines : self.lines[l].covered}),
     total_functions |-> Len(self.functions),
     covered_functions |->
        Cardinality({i \in DOMAIN self.functions : self.functions[i].covered}),
     total_branches |-> Len(self.branches),
     covered_branches |->
        Cardinality({i \in DOMAIN self.branches : self.branches[i].fully_covered})]

\* probe_iter is the order map.probes iterates in, line_iter the order
\* branch_map iterates in
from_map_and_data(map, cov, probe_iter, line_iter) ==
    LET hit_counts == line_hits(map, cov, line_probes(map, probe_iter))
        bmap == branch_map(map, branch_probes(map, probe_iter))
        built ==
            [file |-> map.file,
             lines |-> [line \in DOMAIN hit_counts |->
                          LineCoverage(line, hit_counts[line])],
             functions |-> [i \in 1..Len(map.functions) |->
                              function_coverage(map.functions[i], cov)],
             branches |-> branches(bmap, line_iter, cov),
             summary |-> CoverageSummary_default]
    IN [built EXCEPT !.summary = calculate_summary(built)]

\* an f64: a finite value num/den, an infinity or a NaN. The rounding of a
\* finite quotient is not represented.
F64(num, den) == [class |-> "finite", num |-> num, den |-> den]
F64_Inf == [class |-> "inf", num |-> 1, den |-> 1]
F64_NaN == [class |-> "nan", num |-> 0, den |-> 1]

\* a as f64 / b as f64
f64_div(a, b) ==
    IF b # 0 THEN F64(a, b) ELSE IF a = 0 THEN F64_NaN ELSE F64_Inf

\* x * k for a finite k > 0
f64_mul(x, k) == IF x.class = "finite" THEN [x EXCEPT !.num = @ * k] ELSE x

line_percent(self) ==
    IF self.total_lines = 0
    THEN F64(100, 1)
    ELSE f64_mul(f64_div(self.covered_lines, self.total_lines), 100)

function_percent(self) ==
    IF self.total_functions = 0
    THEN F64(100, 1)
    ELSE f64_mul(f64_div(self.covered_functions, self.total_functions), 100)

\* branch_percent testing covered_branches in place of total_branches
branch_percent_tests_covered(self) ==
    IF self.covered_branches = 0
    THEN F64(100, 1)
    ELSE f64_mul(f64_div(self.covered_branches, self.total_branches), 100)

branch_percent(self) ==
    IF self.total_branches = 0
    THEN F64(100, 1)
    ELSE f64_mul(f64_div(self.covered_branches, self.total_branches), 100)

\* CoverageSummary::merge that keeps its own totals
CoverageSummary_merge_own_totals(self, other) ==
    [total_lines |-> self.total_lines,
     covered_lines |-> self.covered_lines + other.covered_lines,
     total_functions |-> self.total_functions,
     covered_functions |-> self.covered_functions + other.covered_functions,
     total_branches |-> self.total_branches,
     covered_branches |-> self.covered_branches + other.covered_branches]

\* CoverageSummary::merge without its last line
CoverageSummary_merge_short(self, other) ==
    [total_lines |-> self.total_lines + other.total_lines,
     covered_lines |-> self.covered_lines + other.covered_lines,
     total_functions |-> self.total_functions + other.total_functions,
     covered_functions |-> self.covered_functions + other.covered_functions,
     total_branches |-> self.total_branches + other.total_branches,
     covered_branches |-> self.covered_branches]

CoverageSummary_merge(self, other) ==
    [total_lines |-> self.total_lines + other.total_lines,
     covered_lines |-> self.covered_lines + other.covered_lines,
     total_functions |-> self.total_functions + other.total_functions,
     covered_functions |-> self.covered_functions + other.covered_functions,
     total_branches |-> self.total_branches + other.total_branches,
     covered_branches |-> self.covered_branches + other.covered_branches]

RECURSIVE aggregate_summaries(_)
\* the fold of merge over the reports, from the first to the last
aggregate_summaries(rs) ==
    IF rs = <<>> THEN CoverageSummary_default
    ELSE CoverageSummary_merge(aggregate_summaries(Front(rs)), Last(rs).summary)

\* CoverageReport::new(file) with the summary set, as the callers of
\* aggregate_summaries build their reports
CoverageReport_new(file, s) ==
    [file |-> file, lines |-> <<>>, functions |-> <<>>, branches |-> <<>>,
     summary |-> s]

\* maps.maps.values() enumerated in the order iter, each mapped to its report
generate_reports(mapset, cov, iter, orders) ==
    [i \in DOMAIN iter |->
        from_map_and_data(mapset.maps[iter[i]], cov,
                          orders[iter[i]].probe_iter, orders[iter[i]].line_iter)]

ReportIdle ==
    /\ cmap = CoverageMap_new("test.rsx")
    /\ rdata = CoverageData_new(1)
    /\ report = None
    /\ enumerated = None

---------------------------------------------------------------------------
(* indexmap::IndexMap as the studio uses it: the entries in insertion      *)
(* order, each stored under its own id                                     *)

IndexMap_new == <<>>

IndexMap_keys(self) == {self[i].id : i \in DOMAIN self}

IndexMap_contains_key(self, id) == id \in IndexMap_keys(self)

IndexMap_get(self, id) ==
    IF IndexMap_contains_key(self, id)
    THEN Some(self[CHOOSE i \in DOMAIN self : self[i].id = id])
    ELSE None

\* insert: an entry with the same id is replaced where it stands
IndexMap_insert(self, entry) ==
    IF IndexMap_contains_key(self, entry.id)
    THEN [i \in DOMAIN self |-> IF self[i].id = entry.id THEN entry ELSE self[i]]
    ELSE Append(self, entry)

\* shift_remove: the entries after the removed one move up
IndexMap_shift_remove(self, id) == SelectSeq(self, LAMBDA e : e.id # id)

(* rsc-studio/store.rs *)

Preset(id) == [id |-> id]
Context(id, presets) == [id |-> id, presets |-> presets]
Workflow(id, contexts) == [id |-> id, contexts |-> contexts]

StudioStore_new ==
    [workflows |-> IndexMap_new,
     selected_workflow |-> None,
     selected_context |-> None,
     selected_preset |-> None]

StudioStore_add_workflow(self, workflow) ==
    [self EXCEPT !.workflows = IndexMap_insert(@, workflow)]

\* remove_workflow that clears only selected_workflow
StudioStore_remove_workflow_keeps_inner(self, id) ==
    [self EXCEPT
        !.selected_workflow = IF @ = Some(id) THEN None ELSE @,
        !.workflows = IndexMap_shift_remove(@, id)]

StudioStore_remove_workflow(self, id) ==
    [self EXCEPT
        !.selected_workflow = IF self.selected_workflow = Some(id) THEN None ELSE @,
        !.selected_context = IF self.selected_workflow = Some(id) THEN None ELSE @,
        !.selected_preset = IF self.selected_workflow = Some(id) THEN None ELSE @,
        !.workflows = IndexMap_shift_remove(@, id)]

StudioStore_select_workflow(self, id) ==
    IF IndexMap_contains_key(self.workflows, id)
    THEN [self EXCEPT !.selected_workflow = Some(id),
                      !.selected_context = None,
                      !.selected_preset = None]
    ELSE self

StudioStore_select_context(self, workflow_id, context_id) ==
    LET workflow == IndexMap_get(self.workflows, workflow_id) IN
    IF workflow # None /\ IndexMap_contains_key(Unwrap(workflow).contexts, context_id)
    THEN [self EXCEPT !.selected_workflow = Some(workflow_id),
                      !.selected_context = Some(context_id),
                      !.selected_preset = None]
    ELSE self

StudioStore_select_preset(self, workflow_id, context_id, preset_id) ==
    LET workflow == IndexMap_get(self.workflows, workflow_id)
        context == IF workflow = None THEN None
                   ELSE IndexMap_get(Unwrap(workflow).contexts, context_id)
    IN
    IF context # None /\ IndexMap_contains_key(Unwrap(context).presets, preset_id)
    THEN [self EXCEPT !.selected_workflow = Some(workflow_id),
                      !.selected_context = Some(context_id),
                      !.selected_preset = Some(preset_id)]
    ELSE self

(* rsc-dnd/sortable.rs; indices count from 0 as in the source *)

\* items.iter().position(|i| i == id)
position(items, id) ==
    IF \E i \in DOMAIN items : items[i] = id
    THEN Some((CHOOSE i \in DOMAIN items :
                  items[i] = id /\ \A j \in 1..(i - 1) : items[j] # id) - 1)
    ELSE None

\* Vec::remove(index): the vector without the element at index
Vec_remove(v, index) == SubSeq(v, 1, index) \o SubSeq(v, index + 2, Len(v))

\* Vec::insert(index, element)
Vec_insert(v, index, element) ==
    SubSeq(v, 1, index) \o <<element>> \o SubSeq(v, index + 1, Len(v))

SortableContext_new(items) ==
    [items |-> items,
     direction |-> "Vertical",
     active_id |-> None,
     active_index |-> None,
     over_index |-> None]

SortableContext_start(self, id) ==
    [self EXCEPT !.active_id = Some(id),
                 !.active_index = position(self.items, id),
                 !.over_index = position(self.items, id)]

SortableContext_move_to(self, over_id) ==
    [self EXCEPT !.over_index = position(self.items, over_id)]

\* reorder that exchanges the two items
reorder_swap(self, from, to) ==
    [i \in DOMAIN self.items |->
        IF i = from + 1 THEN self.items[to + 1]
        ELSE IF i = to + 1 THEN self.items[from + 1]
        ELSE self.items[i]]

reorder(self, from, to) ==
    Vec_insert(Vec_remove(self.items, from), to, self.items[from + 1])

SortResult(items, from, to) == [items |-> items, from |-> from, to |-> to]

\* end: the value returned and the context left behind
SortableContext_end(self) ==
    [returned |->
        IF /\ self.active_index # None
           /\ self.over_index # None
           /\ Unwrap(self.active_index) # Unwrap(self.over_index)
        THEN Some(SortResult(
                 reorder(self, Unwrap(self.active_index), Unwrap(self.over_index)),
                 Unwrap(self.active_index),
                 Unwrap(self.over_index)))
        ELSE None,
     self |-> [self EXCEPT !.active_id = None,
                           !.active_index = None,
                           !.over_index = None]]

(* rsc-flow/canvas.rs *)

\* Node::new and Edge::new: not selected
Node(id) == [id |-> id, selected |-> FALSE]
Edge(id, source, target) ==
    [id |-> id, source |-> source, target |-> target, selected |-> FALSE]

\* Vec::retain
retain(v, Keep(_)) == SelectSeq(v, Keep)

\* Vec::contains
contains(v, x) == \E i \in DOMAIN v : v[i] = x

FlowCanvas_new ==
    [nodes |-> IndexMap_new,
     edges |-> IndexMap_new,
     selected_nodes |-> <<>>,
     selected_edges |-> <<>>]

FlowCanvas_add_node(self, node) ==
    [self EXCEPT !.nodes = IndexMap_insert(@, node)]

\* remove_node that drops only the edges leaving the node
FlowCanvas_remove_node_outgoing(self, id) ==
    [self EXCEPT
        !.edges = retain(@, LAMBDA edge : edge.source # id),
        !.selected_nodes = retain(@, LAMBDA n : n # id),
        !.nodes = IndexMap_shift_remove(@, id)]

FlowCanvas_remove_node(self, id) ==
    [self EXCEPT
        !.edges = retain(@, LAMBDA edge : edge.source # id /\ edge.target # id),
        !.selected_nodes = retain(@, LAMBDA n : n # id),
        !.nodes = IndexMap_shift_remove(@, id)]

FlowCanvas_add_edge(self, edge) ==
    [self EXCEPT !.edges = IndexMap_insert(@, edge)]

FlowCanvas_remove_edge(self, id) ==
    [self EXCEPT
        !.selected_edges = retain(@, LAMBDA e : e # id),
        !.edges = IndexMap_shift_remove(@, id)]

FlowCanvas_clear_selection(self) ==
    [self EXCEPT
        !.nodes = [i \in DOMAIN @ |-> [@[i] EXCEPT !.selected = FALSE]],
        !.edges = [i \in DOMAIN @ |-> [@[i] EXCEPT !.selected = FALSE]],
        !.selected_nodes = <<>>,
        !.selected_edges = <<>>]

FlowCanvas_select_node(self, id, multi) ==
    LET cleared == IF ~multi THEN FlowCanvas_clear_selection(self) ELSE self IN
    IF IndexMap_contains_key(cleared.nodes, id)
    THEN [cleared EXCEPT
            !.nodes = [i \in DOMAIN @ |->
                          IF @[i].id = id THEN [@[i] EXCEPT !.selected = TRUE] ELSE @[i]],
            !.selected_nodes = IF contains(@, id) THEN @ ELSE Append(@, id)]
    ELSE cleared

(* collector.rs *)

Idle == [op |-> "idle"]

\* COVERAGE_DATA.with: the thread's slot, created by CoverageData::new() on
\* first access
With(c) == IF data[c] = None THEN CoverageData_new(clock) ELSE Unwrap(data[c])

Zero == [p \in ProbeIds |-> 0]

enable(c) ==
    /\ pc[c] = Idle
    /\ enabled' = TRUE
    /\ last' = [op |-> "enable", ctx |-> c]
    /\ UNCHANGED <<clock, data, pc, guards, exported, taken, sinceExport, hits>>

disable(c) ==
    /\ pc[c] = Idle
    /\ enabled' = FALSE
    /\ last' = [op |-> "disable", ctx |-> c]
    /\ UNCHANGED <<clock, data, pc, guards, exported, taken, sinceExport, hits>>

is_enabled == enabled

\* reset over one CoverageData shared by all threads instead of a thread-local
reset_shared(c) ==
    /\ pc[c] = Idle
    /\ data' = [x \in Contexts |-> Some(CoverageData_new(clock))]
    /\ exported' = [exported EXCEPT ![c] = None]
    /\ taken' = [taken EXCEPT ![c] = Zero]
    /\ sinceExport' = [sinceExport EXCEPT ![c] = Zero]
    /\ last' = [op |-> "reset", ctx |-> c,
                 had_hits |-> probes_hit(With(c)) > 0,
                 finished |-> With(c).end_time # 0]
    /\ UNCHANGED <<enabled, clock, pc, guards, hits>>

\* reset that also switches collection on
reset_enabling(c) ==
    /\ pc[c] = Idle
    /\ enabled' = TRUE
    /\ data' = [data EXCEPT ![c] = Some(CoverageData_reset(With(c), clock))]
    /\ exported' = [exported EXCEPT ![c] = None]
    /\ taken' = [taken EXCEPT ![c] = Zero]
    /\ sinceExport' = [sinceExport EXCEPT ![c] = Zero]
    /\ last' = [op |-> "reset", ctx |-> c,
                 had_hits |-> probes_hit(With(c)) > 0,
                 finished |-> With(c).end_time # 0]
    /\ UNCHANGED <<clock, pc, guards, hits>>

reset(c) ==
    /\ pc[c] = Idle
    /\ data' = [data EXCEPT ![c] = Some(CoverageData_reset(With(c), clock))]
    /\ exported' = [exported EXCEPT ![c] = None]
    /\ taken' = [taken EXCEPT ![c] = Zero]
    /\ sinceExport' = [sinceExport EXCEPT ![c] = Zero]
    /\ last' = [op |-> "reset", ctx |-> c,
                 had_hits |-> probes_hit(With(c)) > 0,
                 finished |-> With(c).end_time # 0]
    /\ UNCHANGED <<enabled, clock, pc, guards, hits>>

\* export that moves the data out (mem::take) instead of cloning it
export_coverage_take(c) ==
    /\ pc[c] = Idle
    /\ LET borrowed == finish(With(c), clock) IN
        /\ data' = [data EXCEPT ![c] = Some(CoverageData_new(clock))]
        /\ exported' = [exported EXCEPT ![c] = Some(borrowed)]
    /\ sinceExport' = [sinceExport EXCEPT ![c] = Zero]
    /\ last' = [op |-> "export_coverage", ctx |-> c,
                 again |-> exported[c] # None,
                 added |-> sinceExport[c] # Zero]
    /\ UNCHANGED <<enabled, clock, pc, guards, taken, hits>>

export_coverage(c) ==
    /\ pc[c] = Idle
    /\ LET borrowed == finish(With(c), clock) IN
        /\ data' = [data EXCEPT ![c] = Some(borrowed)]
        /\ exported' = [exported EXCEPT ![c] = Some(borrowed)]
    /\ sinceExport' = [sinceExport EXCEPT ![c] = Zero]
    /\ last' = [op |-> "export_coverage", ctx |-> c,
                 again |-> exported[c] # None,
                 added |-> sinceExport[c] # Zero]
    /\ UNCHANGED <<enabled, clock, pc, guards, taken, hits>>

\* record_hit without the test of the flag
record_hit_load_unchecked(c, probe_id, kind) ==
    /\ pc[c] = Idle
    /\ hits < MaxHits
    /\ pc' = [pc EXCEPT ![c] =
                 [op |-> "record_hit", probe_id |-> probe_id, kind |-> kind]]
    /\ taken' = [taken EXCEPT ![c][probe_id] = @ + 1]
    /\ sinceExport' = [sinceExport EXCEPT ![c][probe_id] = @ + 1]
    /\ hits' = hits + 1
    /\ last' = [op |-> "record_hit_load", ctx |-> c]
    /\ UNCHANGED <<enabled, clock, data, guards, exported>>

\* record_hit, first step: COVERAGE_ENABLED.load(Relaxed)
record_hit_load(c, probe_id, kind) ==
    /\ pc[c] = Idle
    /\ hits < MaxHits
    /\ IF enabled
       THEN /\ pc' = [pc EXCEPT ![c] =
                        [op |-> "record_hit", probe_id |-> probe_id, kind |-> kind]]
            /\ taken' = [taken EXCEPT ![c][probe_id] = @ + 1]
            /\ sinceExport' = [sinceExport EXCEPT ![c][probe_id] = @ + 1]
            /\ hits' = hits + 1
            /\ last' = [op |-> "record_hit_load", ctx |-> c]
       ELSE /\ last' = [op |-> "record_hit_disabled", ctx |-> c]
            /\ UNCHANGED <<pc, taken, sinceExport, hits>>
    /\ UNCHANGED <<enabled, clock, data, guards, exported>>

\* the second step of record_hit on data that all threads share
record_hit_store_shared(c) ==
    /\ pc[c].op = "record_hit"
    /\ data' = [b \in Contexts |->
                  Some(CoverageData_record_hit(With(b), pc[c].probe_id, pc[c].kind))]
    /\ pc' = [pc EXCEPT ![c] = Idle]
    /\ last' = [op |-> "record_hit", ctx |-> c]
    /\ UNCHANGED <<enabled, clock, guards, exported, taken, sinceExport, hits>>

\* record_hit, second step: COVERAGE_DATA.with(|data| data.record_hit(..))
record_hit_store(c) ==
    /\ pc[c].op = "record_hit"
    /\ data' = [data EXCEPT ![c] =
                  Some(CoverageData_record_hit(With(c), pc[c].probe_id, pc[c].kind))]
    /\ pc' = [pc EXCEPT ![c] = Idle]
    /\ last' = [op |-> "record_hit", ctx |-> c]
    /\ UNCHANGED <<enabled, clock, guards, exported, taken, sinceExport, hits>>

\* A 64-bit integer is the sequence of its 8 bytes, the least significant
\* first; an i64 and the u64 that `as u64` makes of it have the same bytes.
RECURSIVE BitAnd(_, _, _)
\* a & b on n bits
BitAnd(a, b, n) ==
    IF n = 0 THEN 0
    ELSE (a % 2) * (b % 2) + 2 * BitAnd(a \div 2, b \div 2, n - 1)

u64_and(x, y) == [i \in 1..8 |-> BitAnd(x[i], y[i], 8)]

\* x >> n for 0 <= n < 64
u64_shr(x, n) ==
    LET r == n % 8
        byte(k) == IF k <= 8 THEN x[k] ELSE 0
    IN [i \in 1..8 |->
          (byte(i + n \div 8) \div 2^r)
            + (byte(i + n \div 8 + 1) % 2^r) * 2^(8 - r)]

\* 0x00FFFFFFFFFFFFFF and 0xFF
MASK_56 == <<255, 255, 255, 255, 255, 255, 255, 0>>
MASK_8 == <<255, 0, 0, 0, 0, 0, 0, 0>>

\* `as u8` of a u64 and of an i32
u64_as_u8(x) == x[1]
i32_as_u8(k) == k % 256

\* a whole call of record_hit by thread c that nothing interleaves with:
\* the value of its COVERAGE_DATA afterwards
record_hit(c, id, k) ==
    IF enabled THEN Some(CoverageData_record_hit(With(c), id, k)) ELSE data[c]

\* __coverage_hit taking the kind from bits 48..55
coverage_hit_shift_48(c, word) ==
    LET id == u64_and(word, MASK_56)
        k == u64_as_u8(u64_and(u64_shr(word, 48), MASK_8))
    IN record_hit(c, id, k)

\* __coverage_hit(encoded)
coverage_hit(c, word) ==
    LET id == u64_and(word, MASK_56)
        k == u64_as_u8(u64_and(u64_shr(word, 56), MASK_8))
    IN record_hit(c, id, k)

\* __coverage_hit_ex(probe_id, kind)
coverage_hit_ex(c, id, k) == record_hit(c, id, i32_as_u8(k))

\* the word the instrumented code passes: "Lower 56 bits: probe ID, upper
\* 8 bits: probe kind"
Encode(id, k) == [i \in 1..8 |-> IF i = 8 THEN k % 256 ELSE id[i]]

CoverageGuard(was_enabled) == [was_enabled |-> was_enabled]

GuardsInFlight == Cardinality({c \in Contexts : pc[c].op = "guard_new"})

\* CoverageGuard::new, first step: was_enabled = is_enabled();
\* new_fresh calls reset() just before it
CoverageGuard_new_load(c, fresh) ==
    /\ pc[c] = Idle
    /\ BagCardinality(guards) + GuardsInFlight < MaxGuards
    /\ pc' = [pc EXCEPT ![c] = [op |-> "guard_new", was_enabled |-> is_enabled]]
    /\ IF fresh
       THEN /\ data' = [data EXCEPT ![c] = Some(CoverageData_reset(With(c), clock))]
            /\ exported' = [exported EXCEPT ![c] = None]
            /\ taken' = [taken EXCEPT ![c] = Zero]
            /\ sinceExport' = [sinceExport EXCEPT ![c] = Zero]
            /\ last' = [op |-> "new_fresh_load", ctx |-> c]
       ELSE /\ last' = [op |-> "new_load", ctx |-> c]
            /\ UNCHANGED <<data, exported, taken, sinceExport>>
    /\ UNCHANGED <<enabled, clock, guards, hits>>

\* CoverageGuard::new, second step: enable(); Self { was_enabled }
CoverageGuard_new_enable(c) ==
    /\ pc[c].op = "guard_new"
    /\ enabled' = TRUE
    /\ guards' = guards (+) SetToBag({CoverageGuard(pc[c].was_enabled)})
    /\ pc' = [pc EXCEPT ![c] = Idle]
    /\ last' = [op |-> "new", ctx |-> c]
    /\ UNCHANGED <<clock, data, exported, taken, sinceExport, hits>>

\* drop that restores the captured flag, turning collection back on
drop_restore(c, self) ==
    /\ pc[c] = Idle
    /\ BagIn(self, guards)
    /\ guards' = guards (-) SetToBag({self})
    /\ enabled' = self.was_enabled
    /\ last' = [op |-> "drop", ctx |-> c, was_enabled |-> self.was_enabled]
    /\ UNCHANGED <<clock, data, pc, exported, taken, sinceExport, hits>>

\* Drop for CoverageGuard
drop(c, self) ==
    /\ pc[c] = Idle
    /\ BagIn(self, guards)
    /\ guards' = guards (-) SetToBag({self})
    /\ enabled' = IF ~self.was_enabled THEN FALSE ELSE enabled
    /\ last' = [op |-> "drop", ctx |-> c, was_enabled |-> self.was_enabled]
    /\ UNCHANGED <<clock, data, pc, exported, taken, sinceExport, hits>>

\* time passes
Tick ==
    /\ clock < MaxTime
    /\ clock' = clock + 1
    /\ last' = [op |-> "tick", ctx |-> "-"]
    /\ UNCHANGED <<enabled, data, pc, guards, exported, taken, sinceExport, hits>>

CollInit ==
    /\ enabled = FALSE
    /\ clock = 1
    /\ data = [c \in Contexts |-> None]
    /\ pc = [c \in Contexts |-> Idle]
    /\ guards = EmptyBag
    /\ exported = [c \in Contexts |-> None]
    /\ taken = [c \in Contexts |-> Zero]
    /\ sinceExport = [c \in Contexts |-> Zero]
    /\ hits = 0
    /\ last = [op |-> "init", ctx |-> "-"]

MergeIdle == merged = None /\ mergedFrom = {}
AlgIdle == ma = None /\ mb = None /\ mc = None /\ mout = None

SumIdle == reports = <<>> /\ aggregate = None
PctIdle == summary = None /\ percents = None
SetIdle == maps = CoverageMapSet_new /\ got = None /\ generated = None
EncIdle == arg_id = None /\ arg_kind = None /\ encoded = None /\ called = {}
MapIdle ==
    /\ imap = CoverageMap_new("test.rsx")
    /\ added = [id \in MapProbeIds |-> None]
    /\ adds = 0
StoreIdle == store = StudioStore_new /\ store_last = [op |-> "new"]
SortIdle == sortable = None /\ sort_result = None /\ trail = <<>> /\ given = <<>>
CanvasIdle == canvas = FlowCanvas_new /\ canvas_last = [op |-> "new"]
AppIdle == StoreIdle /\ SortIdle /\ CanvasIdle
TotIdle ==
    /\ freports = <<>>
    /\ total = None
    /\ running = CoverageSummary_default
    /\ merges = 0
LibIdle == SumIdle /\ PctIdle /\ SetIdle /\ EncIdle /\ MapIdle /\ AppIdle /\ TotIdle

Init == CollInit /\ MergeIdle /\ AlgIdle /\ ReportIdle /\ LibIdle

CollFrame == UNCHANGED <<mergeVars, algVars, reportVars, libVars>>

\* the collector: threads recording, resetting and exporting while the flag
\* is switched and time passes
Next ==
    \/ Tick /\ CollFrame
    \/ \E c \in Contexts : enable(c) /\ CollFrame
    \/ \E c \in Contexts : disable(c) /\ CollFrame
    \/ \E c \in Contexts : reset(c) /\ CollFrame
    \/ \E c \in Contexts : export_coverage(c) /\ CollFrame
    \/ \E c \in Contexts, p \in ProbeIds : record_hit_load(c, p, KindOf(p)) /\ CollFrame
    \/ \E c \in Contexts : record_hit_store(c) /\ CollFrame

Spec == Init /\ [][Next]_vars

\* scoped collection: threads making and dropping guards around their hits
NextGuard ==
    \/ \E c \in Contexts, fresh \in BOOLEAN : CoverageGuard_new_load(c, fresh) /\ CollFrame
    \/ \E c \in Contexts : CoverageGuard_new_enable(c) /\ CollFrame
    \/ \E c \in Contexts, g \in BagToSet(guards) : drop(c, g) /\ CollFrame
    \/ \E c \in Contexts : enable(c) /\ CollFrame
    \/ \E c \in Contexts : disable(c) /\ CollFrame
    \/ \E c \in Contexts, p \in ProbeIds : record_hit_load(c, p, KindOf(p)) /\ CollFrame
    \/ \E c \in Contexts : record_hit_store(c) /\ CollFrame

SpecGuard == Init /\ [][NextGuard]_vars

---------------------------------------------------------------------------
(* The end of a run on several threads: every thread exports and the
   exports are merged into one CoverageData *)

\* the export of thread c is merged into the run's data; the first export
\* merged is the data the others are merged into
merge_export(c) ==
    /\ c \notin mergedFrom
    /\ exported[c] # None
    /\ merged' = IF merged = None
                  THEN exported[c]
                  ELSE Some(merge(Unwrap(merged), Unwrap(exported[c])))
    /\ mergedFrom' = mergedFrom \cup {c}
    /\ UNCHANGED <<collVars, algVars, reportVars, libVars>>

\* collection has been enabled before the threads start
MergeAllInit ==
    /\ enabled = TRUE
    /\ clock = 1
    /\ data = [c \in Contexts |-> None]
    /\ pc = [c \in Contexts |-> Idle]
    /\ guards = EmptyBag
    /\ exported = [c \in Contexts |-> None]
    /\ taken = [c \in Contexts |-> Zero]
    /\ sinceExport = [c \in Contexts |-> Zero]
    /\ hits = 0
    /\ last = [op |-> "enable", ctx |-> "-"]
    /\ MergeIdle
    /\ AlgIdle
    /\ ReportIdle
    /\ LibIdle

\* a thread whose export has been merged has ended
Running(c) == c \notin mergedFrom

NextMergeAll ==
    \/ Tick /\ CollFrame
    \/ \E c \in Contexts, p \in ProbeIds :
          Running(c) /\ record_hit_load(c, p, KindOf(p)) /\ CollFrame
    \/ \E c \in Contexts : record_hit_store(c) /\ CollFrame
    \/ \E c \in Contexts : Running(c) /\ export_coverage(c) /\ CollFrame
    \/ \E c \in Contexts : merge_export(c)

SpecMergeAll == MergeAllInit /\ [][NextMergeAll]_vars

---------------------------------------------------------------------------
(* CoverageData::merge on its own *)

Min(a, b) == IF a < b THEN a ELSE b

\* the maps of probe hits with counts up to MaxOperandCount
OperandHits ==
    UNION {[ids -> 1..MaxOperandCount] : ids \in SUBSET ProbeIds}

\* CoverageData values: not finished, or finished at or after their start
Operands ==
    {d \in {[probe_hits |-> [p \in DOMAIN h |->
                               [probe_id |-> p, kind |-> KindOf(p), count |-> h[p]]],
             start_time |-> s, end_time |-> e] :
               h \in OperandHits, s \in 1..MaxTime, e \in 0..MaxTime} :
        d.end_time = 0 \/ d.end_time >= d.start_time}

AlgInit ==
    /\ CollInit
    /\ MergeIdle
    /\ ReportIdle
    /\ LibIdle
    /\ ma \in {Some(d) : d \in Operands}
    /\ mb \in {Some(d) : d \in Operands}
    /\ mc \in {Some(d) : d \in {o \in Operands : o.start_time = 1 /\ o.end_time = 0}}
    /\ mout = None

\* a.merge(&b), b.merge(&a), a.merge(&b).merge(&c) and a.merge(&b.merge(&c))
apply_merge ==
    /\ mout = None
    /\ LET a == Unwrap(ma)
           b == Unwrap(mb)
           c == Unwrap(mc)
       IN mout' = Some([ab |-> merge(a, b), ba |-> merge(b, a),
                        ab_c |-> merge(merge(a, b), c),
                        a_bc |-> merge(a, merge(b, c))])
    /\ UNCHANGED <<collVars, mergeVars, reportVars, libVars, ma, mb, mc>>

NextAlg == apply_merge

SpecMergeAlg == AlgInit /\ [][NextAlg]_vars

RECURSIVE total_count(_, _)
\* the hits cov holds on the probes ids
total_count(cov, ids) ==
    IF ids = {} THEN 0
    ELSE LET id == CHOOSE x \in ids : TRUE IN
         get_hit_count(cov, id) + total_count(cov, ids \ {id})

---------------------------------------------------------------------------
(* A report: the instrumentation fills the map, the run fills the data,
   from_map_and_data makes the report *)

add_probe(probe_id, location) ==
    /\ probes_hit(rdata) = 0
    /\ report = None
    /\ cmap' = CoverageMap_add_probe(cmap, probe_id, location)
    /\ UNCHANGED <<rdata, report, enumerated, collVars, mergeVars, algVars, libVars>>

add_function(info) ==
    /\ probes_hit(rdata) = 0
    /\ report = None
    /\ Len(cmap.functions) < MaxFunctions
    /\ cmap' = CoverageMap_add_function(cmap, info)
    /\ UNCHANGED <<rdata, report, enumerated, collVars, mergeVars, algVars, libVars>>

\* a probe of the run fires: a mapped probe with the kind of the map
run_hit(probe_id) ==
    /\ report = None
    /\ total_count(rdata, DOMAIN rdata.probe_hits) < MaxReportHits
    /\ rdata' = CoverageData_record_hit(rdata, probe_id,
                    IF probe_id \in DOMAIN cmap.probes
                    THEN cmap.probes[probe_id].kind ELSE LINE)
    /\ UNCHANGED <<cmap, report, enumerated, collVars, mergeVars, algVars, libVars>>

generate_report ==
    /\ report = None
    /\ \E probe_iter \in IterationOrders(DOMAIN cmap.probes) :
        \E line_iter \in IterationOrders(
                DOMAIN branch_map(cmap, branch_probes(cmap, probe_iter))) :
            /\ report' = Some(from_map_and_data(cmap, rdata, probe_iter, line_iter))
            /\ enumerated' = Some(branch_probes(cmap, probe_iter))
    /\ UNCHANGED <<cmap, rdata, collVars, mergeVars, algVars, libVars>>

NextReport ==
    \/ \E id \in MapProbeIds, line \in Lines, kind \in Kinds :
          add_probe(id, ProbeLocation(line, kind))
    \/ \E info \in FunctionInfos : add_function(info)
    \/ \E id \in MapProbeIds : run_hit(id)
    \/ generate_report

SpecReport == Init /\ [][NextReport]_vars

---------------------------------------------------------------------------
(* aggregate_summaries over the reports of several files *)

\* the files reported on
Files == {"a.rsx", "b.rsx"}

\* the largest counter of a summary handed in
MaxSummaryCount == 1

\* the summaries calculate_summary can return with counters up to
\* MaxSummaryCount: a covered counter never exceeds its total
Summaries ==
    {s \in [{"total_lines", "covered_lines", "total_functions",
             "covered_functions", "total_branches", "covered_branches"}
                -> 0..MaxSummaryCount] :
        /\ s.covered_lines <= s.total_lines
        /\ s.covered_functions <= s.total_functions
        /\ s.covered_branches <= s.total_branches}

LibFrame == UNCHANGED <<collVars, mergeVars, algVars, reportVars>>

\* the caller appends the report of one more file
push_report(file, s) ==
    /\ aggregate = None
    /\ \A i \in DOMAIN reports : reports[i].file # file
    /\ reports' = Append(reports, CoverageReport_new(file, s))
    /\ UNCHANGED <<aggregate, pctVars, setVars, encVars, mapVars, appVars, totVars>>
    /\ LibFrame

call_aggregate_summaries ==
    /\ aggregate = None
    /\ aggregate' = Some(aggregate_summaries(reports))
    /\ UNCHANGED <<reports, pctVars, setVars, encVars, mapVars, appVars, totVars>>
    /\ LibFrame

NextSummary ==
    \/ \E file \in Files, s \in Summaries : push_report(file, s)
    \/ call_aggregate_summaries

SpecSummary == Init /\ [][NextSummary]_vars

---------------------------------------------------------------------------
(* The percentages of a summary *)

\* CoverageSummary has public fields: any six counters up to MaxSummaryCount
AnySummaries ==
    [{"total_lines", "covered_lines", "total_functions",
      "covered_functions", "total_branches", "covered_branches"}
        -> 0..MaxSummaryCount]

PctInit ==
    /\ CollInit
    /\ MergeIdle
    /\ AlgIdle
    /\ ReportIdle
    /\ SumIdle
    /\ SetIdle
    /\ EncIdle
    /\ MapIdle
    /\ AppIdle
    /\ TotIdle
    /\ summary \in {Some(s) : s \in AnySummaries}
    /\ percents = None

call_percents ==
    /\ percents = None
    /\ percents' = Some([line |-> line_percent(Unwrap(summary)),
                         function |-> function_percent(Unwrap(summary)),
                         branch |-> branch_percent(Unwrap(summary))])
    /\ UNCHANGED <<summary, sumVars, setVars, encVars, mapVars, appVars, totVars>>
    /\ LibFrame

NextPercent == call_percents

SpecPercent == PctInit /\ [][NextPercent]_vars

---------------------------------------------------------------------------
(* A CoverageMapSet: maps are added, looked up by file, and reported on *)

MapFiles == {"a.rsx", "b.rsx", "c.rsx"}

\* the maps added: of each file an empty map and a map with a Line probe
\* and a BranchTrue probe
FileMaps ==
    {CoverageMap_new(f) : f \in MapFiles}
        \cup {CoverageMap_add_probe(
                   CoverageMap_add_probe(CoverageMap_new(f), 1, ProbeLocation(10, LINE)),
                   2, ProbeLocation(11, BRANCH_TRUE)) : f \in MapFiles}

\* the data reported on: no hit, or probe 1 hit once
RunData ==
    {CoverageData_new(1), CoverageData_record_hit(CoverageData_new(1), 1, LINE)}

\* for each map of the set, an order of its probe table and of its branch lines
ChoiceOfOrders(mapset) ==
    [DOMAIN mapset.maps ->
        [probe_iter : UNION {IterationOrders(DOMAIN m.probes) : m \in FileMaps},
         line_iter : {<<>>, <<11>>}]]

OrdersFit(mapset, orders) ==
    \A f \in DOMAIN mapset.maps :
        /\ orders[f].probe_iter \in IterationOrders(DOMAIN mapset.maps[f].probes)
        /\ orders[f].line_iter \in IterationOrders(
               DOMAIN branch_map(mapset.maps[f],
                                 branch_probes(mapset.maps[f], orders[f].probe_iter)))

SetFrame ==
    UNCHANGED <<collVars, mergeVars, algVars, reportVars, sumVars, pctVars, encVars,
                mapVars, appVars, totVars>>

mapset_add(map) ==
    /\ got = None
    /\ generated = None
    /\ maps' = CoverageMapSet_add(maps, map)
    /\ UNCHANGED <<got, generated>>
    /\ SetFrame

mapset_get(file) ==
    /\ got' = Some([file |-> file, result |-> CoverageMapSet_get(maps, file)])
    /\ UNCHANGED <<maps, generated>>
    /\ SetFrame

call_generate_reports(cov) ==
    /\ generated = None
    /\ \E iter \in IterationOrders(DOMAIN maps.maps) :
        \E orders \in ChoiceOfOrders(maps) :
            /\ OrdersFit(maps, orders)
            /\ generated' = Some(generate_reports(maps, cov, iter, orders))
    /\ UNCHANGED <<maps, got>>
    /\ SetFrame

NextMapSet ==
    \/ \E map \in FileMaps : mapset_add(map)
    \/ \E file \in MapFiles : mapset_get(file)
    \/ \E cov \in RunData : call_generate_reports(cov)

SpecMapSet == Init /\ [][NextMapSet]_vars

---------------------------------------------------------------------------
(* The two WASM entry points: thread A reports a probe through
   __coverage_hit, thread B the same probe through __coverage_hit_ex *)

\* probe ids: small, with all of the low 56 bits set, and beyond 56 bits
EncProbeIds ==
    {<<b1, m, m, m, m, m, b7, b8>> :
        b1 \in {0, 42, 255}, m \in {0, 255}, b7 \in {0, 1, 255}, b8 \in {0, 128}}

\* probe kinds: those of probe_kind, the ends of a byte, and beyond a byte
EncKinds == {LINE, FUNCTION_ENTRY, BRANCH_TRUE, BRANCH_FALSE, 127, 128, 255, 256, -1}

EncInit ==
    /\ enabled \in BOOLEAN
    /\ clock = 1
    /\ data = [c \in Contexts |-> None]
    /\ pc = [c \in Contexts |-> Idle]
    /\ guards = EmptyBag
    /\ exported = [c \in Contexts |-> None]
    /\ taken = [c \in Contexts |-> Zero]
    /\ sinceExport = [c \in Contexts |-> Zero]
    /\ hits = 0
    /\ last = [op |-> "init", ctx |-> "-"]
    /\ MergeIdle
    /\ AlgIdle
    /\ ReportIdle
    /\ SumIdle
    /\ PctIdle
    /\ SetIdle
    /\ MapIdle
    /\ AppIdle
    /\ TotIdle
    /\ arg_id \in {Some(id) : id \in EncProbeIds}
    /\ arg_kind \in {Some(k) : k \in EncKinds}
    /\ encoded = Some(Encode(Unwrap(arg_id), Unwrap(arg_kind)))
    /\ called = {}

EncFrame ==
    UNCHANGED <<enabled, clock, pc, guards, exported, taken, sinceExport, hits,
                mergeVars, algVars, reportVars, sumVars, pctVars, setVars,
                mapVars, appVars, totVars, arg_id, arg_kind, encoded>>

call_coverage_hit ==
    /\ "__coverage_hit" \notin called
    /\ data' = [data EXCEPT !["A"] = coverage_hit("A", Unwrap(encoded))]
    /\ called' = called \cup {"__coverage_hit"}
    /\ last' = [op |-> "__coverage_hit", ctx |-> "A"]
    /\ EncFrame

call_coverage_hit_ex ==
    /\ "__coverage_hit_ex" \notin called
    /\ data' = [data EXCEPT !["B"] =
                  coverage_hit_ex("B", Unwrap(arg_id), Unwrap(arg_kind))]
    /\ called' = called \cup {"__coverage_hit_ex"}
    /\ last' = [op |-> "__coverage_hit_ex", ctx |-> "B"]
    /\ EncFrame

NextEncoded ==
    \/ call_coverage_hit
    \/ call_coverage_hit_ex

SpecEncoded == EncInit /\ [][NextEncoded]_vars

---------------------------------------------------------------------------
(* A CoverageMap while the instrumentation fills it *)

\* the number of add_probe calls
MaxAdds == 3

\* the locations probes are added at
AddLocations ==
    {ProbeLocation(line, k) : line \in Lines, k \in {LINE, BRANCH_TRUE}}

MapFrame ==
    UNCHANGED <<collVars, mergeVars, algVars, reportVars, sumVars, pctVars, setVars,
                encVars, appVars, totVars>>

map_add_probe(probe_id, location) ==
    /\ adds < MaxAdds
    /\ imap' = CoverageMap_add_probe(imap, probe_id, location)
    /\ added' = [added EXCEPT ![probe_id] = Some(location)]
    /\ adds' = adds + 1
    /\ MapFrame

map_add_function(info) ==
    /\ Len(imap.functions) < MaxFunctions
    /\ imap' = CoverageMap_add_function(imap, info)
    /\ UNCHANGED <<added, adds>>
    /\ MapFrame

NextMap ==
    \/ \E id \in MapProbeIds, location \in AddLocations : map_add_probe(id, location)
    \/ \E info \in FunctionInfos : map_add_function(info)

SpecMap == Init /\ [][NextMap]_vars

---------------------------------------------------------------------------
(* The studio store: workflows added, selected and removed *)

WorkflowIds == {"w1", "w2"}
ContextIds == {"c1"}
PresetIds == {"p1"}

\* the workflows handed to add_workflow: without a context, with a context
\* without preset, with a context with a preset
Workflows ==
    {Workflow(w, contexts) :
        w \in WorkflowIds,
        contexts \in {<<>>, <<Context("c1", <<>>)>>, <<Context("c1", <<Preset("p1")>>)>>}}

StoreFrame ==
    UNCHANGED <<collVars, mergeVars, algVars, reportVars, sumVars, pctVars, setVars,
                encVars, mapVars, sortVars, canvasVars, totVars>>

add_workflow(workflow) ==
    /\ store' = StudioStore_add_workflow(store, workflow)
    /\ store_last' = [op |-> "add_workflow"]
    /\ StoreFrame

remove_workflow(id) ==
    /\ store' = StudioStore_remove_workflow(store, id)
    /\ store_last' = [op |-> "remove_workflow", id |-> id,
                       returned |-> IndexMap_get(store.workflows, id),
                       before |-> store]
    /\ StoreFrame

select_workflow(id) ==
    /\ store' = StudioStore_select_workflow(store, id)
    /\ store_last' = [op |-> "select_workflow"]
    /\ StoreFrame

select_context(workflow_id, context_id) ==
    /\ store' = StudioStore_select_context(store, workflow_id, context_id)
    /\ store_last' = [op |-> "select_context"]
    /\ StoreFrame

select_preset(workflow_id, context_id, preset_id) ==
    /\ store' = StudioStore_select_preset(store, workflow_id, context_id, preset_id)
    /\ store_last' = [op |-> "select_preset"]
    /\ StoreFrame

NextStore ==
    \/ \E workflow \in Workflows : add_workflow(workflow)
    \/ \E id \in WorkflowIds : remove_workflow(id)
    \/ \E id \in WorkflowIds : select_workflow(id)
    \/ \E w \in WorkflowIds, c \in ContextIds : select_context(w, c)
    \/ \E w \in WorkflowIds, c \in ContextIds, p \in PresetIds : select_preset(w, c, p)

SpecStore == Init /\ [][NextStore]_vars

---------------------------------------------------------------------------
(* A sortable list: an item is picked up, moved over others and dropped *)

DndIds == {"a", "b", "c", "d"}

\* the lists of distinct item ids
ItemLists ==
    {items \in UNION {[1..n -> DndIds] : n \in 0..Cardinality(DndIds)} :
        \A i, j \in DOMAIN items : items[i] = items[j] => i = j}

\* the last three calls
Window(calls) ==
    IF Len(calls) > 3 THEN SubSeq(calls, Len(calls) - 2, Len(calls)) ELSE calls

SortFrame ==
    UNCHANGED <<collVars, mergeVars, algVars, reportVars, sumVars, pctVars, setVars,
                encVars, mapVars, storeVars, canvasVars, totVars>>

sortable_new(items) ==
    /\ sortable = None
    /\ sortable' = Some(SortableContext_new(items))
    /\ given' = items
    /\ UNCHANGED <<sort_result, trail>>
    /\ SortFrame

start(id) ==
    /\ sortable # None
    /\ sortable' = Some(SortableContext_start(Unwrap(sortable), id))
    /\ trail' = Window(Append(trail, [op |-> "start", id |-> id]))
    /\ UNCHANGED <<sort_result, given>>
    /\ SortFrame

move_to(over_id) ==
    /\ sortable # None
    /\ sortable' = Some(SortableContext_move_to(Unwrap(sortable), over_id))
    /\ trail' = Window(Append(trail, [op |-> "move_to", id |-> over_id]))
    /\ UNCHANGED <<sort_result, given>>
    /\ SortFrame

end ==
    /\ sortable # None
    /\ sortable' = Some(SortableContext_end(Unwrap(sortable)).self)
    /\ sort_result' = SortableContext_end(Unwrap(sortable)).returned
    /\ trail' = Window(Append(trail, [op |-> "end", id |-> "-"]))
    /\ UNCHANGED given
    /\ SortFrame

NextSort ==
    \/ \E items \in ItemLists : sortable_new(items)
    \/ \E id \in DndIds : start(id)
    \/ \E id \in DndIds : move_to(id)
    \/ end

SpecSort == Init /\ [][NextSort]_vars

---------------------------------------------------------------------------
(* A flow canvas: nodes and edges added, selected and removed *)

NodeIds == {"1", "2", "3"}
EdgeIds == {"e1", "e2"}

CanvasFrame ==
    UNCHANGED <<collVars, mergeVars, algVars, reportVars, sumVars, pctVars, setVars,
                encVars, mapVars, storeVars, sortVars, totVars>>

add_node(id) ==
    /\ canvas' = FlowCanvas_add_node(canvas, Node(id))
    /\ canvas_last' = [op |-> "add_node"]
    /\ CanvasFrame

remove_node(id) ==
    /\ canvas' = FlowCanvas_remove_node(canvas, id)
    /\ canvas_last' =
          [op |-> "remove_node", id |-> id,
           returned |-> IndexMap_get(canvas.nodes, id),
           was_selected |-> contains(canvas.selected_nodes, id),
           incoming |-> \E i \in DOMAIN canvas.edges : canvas.edges[i].target = id,
           outgoing |-> \E i \in DOMAIN canvas.edges : canvas.edges[i].source = id]
    /\ CanvasFrame

add_edge(id, source, target) ==
    /\ canvas' = FlowCanvas_add_edge(canvas, Edge(id, source, target))
    /\ canvas_last' = [op |-> "add_edge"]
    /\ CanvasFrame

remove_edge(id) ==
    /\ canvas' = FlowCanvas_remove_edge(canvas, id)
    /\ canvas_last' = [op |-> "remove_edge"]
    /\ CanvasFrame

select_node(id, multi) ==
    /\ canvas' = FlowCanvas_select_node(canvas, id, multi)
    /\ canvas_last' = [op |-> "select_node"]
    /\ CanvasFrame

clear_selection ==
    /\ canvas' = FlowCanvas_clear_selection(canvas)
    /\ canvas_last' = [op |-> "clear_selection"]
    /\ CanvasFrame

NextCanvas ==
    \/ \E id \in NodeIds : add_node(id)
    \/ \E id \in NodeIds : remove_node(id)
    \/ \E id \in EdgeIds, source \in NodeIds, target \in NodeIds :
            add_edge(id, source, target)
    \/ \E id \in EdgeIds : remove_edge(id)
    \/ \E id \in NodeIds, multi \in BOOLEAN : select_node(id, multi)
    \/ clear_selection

SpecCanvas == Init /\ [][NextCanvas]_vars

---------------------------------------------------------------------------
(* The summaries of a project: a report per file, their aggregate, and
   summaries merged into one another *)

\* the number of merges into running
MaxMerges == 2

\* the maps of the files: empty, or a Line probe on line 10 that is also the
\* entry probe of main, and a BranchTrue and a BranchFalse probe on line 11
ProjectMaps ==
    {CoverageMap_new(f) : f \in Files}
        \cup {CoverageMap_add_function(
                   CoverageMap_add_probe(
                       CoverageMap_add_probe(
                           CoverageMap_add_probe(CoverageMap_new(f),
                                                 1, ProbeLocation(10, LINE)),
                           2, ProbeLocation(11, BRANCH_TRUE)),
                       3, ProbeLocation(11, BRANCH_FALSE)),
                   FunctionInfo("main", 10, 11, 1)) : f \in Files}

RECURSIVE HitAll(_, _)
\* the data after one hit of each probe of a set
HitAll(cov, ids) ==
    IF ids = {} THEN cov
    ELSE LET id == CHOOSE x \in ids : TRUE IN
         HitAll(CoverageData_record_hit(cov, id, LINE), ids \ {id})

\* the data of a run: each probe hit once or not at all
ProjectData == {HitAll(CoverageData_new(1), ids) : ids \in SUBSET MapProbeIds}

\* the summaries at hand: of the reports, the aggregate, and running itself
SummariesAtHand ==
    {freports[i].summary : i \in DOMAIN freports}
        \cup (IF total = None THEN {} ELSE {Unwrap(total)})
        \cup {running}

TotFrame ==
    UNCHANGED <<collVars, mergeVars, algVars, reportVars, sumVars, pctVars, setVars,
                encVars, mapVars, appVars>>

report_file(map, cov) ==
    /\ \A i \in DOMAIN freports : freports[i].file # map.file
    /\ \E probe_iter \in IterationOrders(DOMAIN map.probes) :
        \E line_iter \in IterationOrders(
                DOMAIN branch_map(map, branch_probes(map, probe_iter))) :
            freports' = Append(freports,
                               from_map_and_data(map, cov, probe_iter, line_iter))
    /\ UNCHANGED <<total, running, merges>>
    /\ TotFrame

aggregate_reports ==
    /\ total' = Some(aggregate_summaries(freports))
    /\ UNCHANGED <<freports, running, merges>>
    /\ TotFrame

merge_summary(other) ==
    /\ merges < MaxMerges
    /\ running' = CoverageSummary_merge(running, other)
    /\ merges' = merges + 1
    /\ UNCHANGED <<freports, total>>
    /\ TotFrame

NextTotals ==
    \/ \E map \in ProjectMaps, cov \in ProjectData : report_file(map, cov)
    \/ aggregate_reports
    \/ \E other \in SummariesAtHand : merge_summary(other)

SpecTotals == Init /\ [][NextTotals]_vars

---------------------------------------------------------------------------
(* Claims about the collector *)

Other(c) == Contexts \ {c}

\* C1: after export_coverage(), the returned data's count of every probe is
\* the number of record_hit calls the thread made on it, since its last
\* reset, that found the flag true; 0 for a probe never recorded.
C1_ExportedCountsAreEnabledHits ==
    \A c \in Contexts :
        (last.op = "export_coverage" /\ last.ctx = c) =>
            \A p \in ProbeIds :
                get_hit_count(Unwrap(exported[c]), p) = taken[c][p]

\* a thread exported after a hit, a reset and two more hits on probe 1
C1_Witness ==
    \E c \in Contexts :
        /\ last.op = "export_coverage" /\ last.ctx = c
        /\ get_hit_count(Unwrap(exported[c]), 1) = 2
        /\ get_hit_count(Unwrap(exported[c]), 2) = 0
        /\ hits = 3
        /\ \A o \in Other(c) : data[o] = None

\* C2: a record_hit call that finds the flag false returns at once and
\* leaves every thread's coverage data (entries, counts, start_time,
\* end_time) as it was.
C2_DisabledHitChangesNothing ==
    [][\A c \in Contexts, p \in ProbeIds :
         (~enabled /\ record_hit_load(c, p, KindOf(p))) =>
            (data' = data /\ pc'[c] = Idle /\ exported' = exported)]_vars

\* a thread that holds hits called record_hit while collection was disabled
C2_Witness ==
    /\ last.op = "record_hit_disabled"
    /\ data[last.ctx] # None
    /\ probes_hit(Unwrap(data[last.ctx])) > 0

\* C3: a guard captures the flag when it is made and the flag is true once
\* it is made; dropping it sets the flag to false when the captured flag
\* was false and leaves the flag alone when it was true; a drop never turns
\* the flag on.
C3_GuardRestoresAsymmetrically ==
    [][\A c \in Contexts :
         /\ (\E fresh \in BOOLEAN : CoverageGuard_new_load(c, fresh)) =>
                pc'[c].was_enabled = enabled
         /\ CoverageGuard_new_enable(c) =>
                (enabled' /\ BagIn(CoverageGuard(pc[c].was_enabled), guards'))
         /\ \A g \in BagToSet(guards) :
                drop(c, g) =>
                    /\ g.was_enabled => enabled' = enabled
                    /\ ~g.was_enabled => enabled' = FALSE
                    /\ enabled' => enabled]_vars

\* a guard made while collection was disabled has been dropped
C3_Witness ==
    last.op = "drop" /\ ~last.was_enabled /\ ~enabled

\* C4: a step of record_hit, reset or export_coverage of one thread leaves
\* the coverage data of every other thread as it was.
C4_CountsConfinedToContext ==
    [][\A a \in Contexts :
         (\/ reset(a)
          \/ export_coverage(a)
          \/ record_hit_store(a)
          \/ \E p \in ProbeIds : record_hit_load(a, p, KindOf(p))) =>
            \A b \in Other(a) : data'[b] = data[b]]_vars

\* one thread reset its hits while another holds exported hits of its own
C4_Witness ==
    \E a \in Contexts :
        /\ last.op = "reset" /\ last.ctx = a /\ last.had_hits
        /\ \E b \in Other(a) :
            /\ data[b] # None
            /\ probes_hit(Unwrap(data[b])) > 0
            /\ Unwrap(data[b]).end_time # 0

\* C7: after reset() the thread's data has no entry, every count reads 0,
\* start_time is the current time and end_time is 0.
C7_ResetClears ==
    \A c \in Contexts :
        (last.op = "reset" /\ last.ctx = c) =>
            LET d == Unwrap(data[c]) IN
            /\ probes_hit(d) = 0
            /\ \A p \in ProbeIds : get_hit_count(d, p) = 0
            /\ d.start_time = clock
            /\ d.end_time = 0

\* reset() of data that held hits and had been exported, at a later time
C7_Witness ==
    last.op = "reset" /\ last.had_hits /\ last.finished /\ clock > 1

\* C8: export_coverage() returns the thread's counts of the moment with
\* end_time set, leaves the live counts as they were, and returns the
\* previous export's counts plus the hits made since; later hits leave the
\* returned value alone.
C8_ExportIsSnapshot ==
    [][\A c \in Contexts :
         /\ export_coverage(c) =>
                LET r == Unwrap(exported'[c]) IN
                /\ r.end_time = clock
                /\ \A p \in ProbeIds :
                    /\ get_hit_count(r, p) = get_hit_count(With(c), p)
                    /\ get_hit_count(Unwrap(data'[c]), p) = get_hit_count(With(c), p)
                    /\ exported[c] # None =>
                          get_hit_count(r, p) =
                            get_hit_count(Unwrap(exported[c]), p) + sinceExport[c][p]
         /\ record_hit_store(c) => exported' = exported]_vars

\* a second export of a thread, with hits made since the first
C8_Witness ==
    last.op = "export_coverage" /\ last.again /\ last.added

RECURSIVE SumTaken(_, _)
\* the record_hit calls of the threads in cs on probe p that found the flag true
SumTaken(cs, p) ==
    IF cs = {} THEN 0
    ELSE LET c == CHOOSE x \in cs : TRUE IN taken[c][p] + SumTaken(cs \ {c}, p)

\* C5: once every thread's export has been merged, and no thread has hit
\* since its export, the merged count of every probe is the number of
\* record_hit calls made on it by all threads together.
C5_MergedExportsCountAllHits ==
    (mergedFrom = Contexts /\ \A c \in Contexts : sinceExport[c] = Zero) =>
        \A p \in ProbeIds :
            get_hit_count(Unwrap(merged), p) = SumTaken(Contexts, p)

\* the exports of two threads that both hit probe 1 have been merged
C5_Witness ==
    /\ mergedFrom = Contexts
    /\ \A c \in Contexts : sinceExport[c] = Zero /\ taken[c][1] >= 1
    /\ get_hit_count(Unwrap(merged), 1) = 3

\* C6: on the count of every probe merge(a, b) = merge(b, a) = a + b and
\* merge(merge(a, b), c) = merge(a, merge(b, c)); the start_time of
\* merge(a, b) is the smaller start_time and its end_time the larger
\* end_time.
C6_MergeCommutativeAssociative ==
    mout # None =>
        LET a == Unwrap(ma)
            b == Unwrap(mb)
            r == Unwrap(mout)
        IN
        /\ \A p \in ProbeIds :
            /\ get_hit_count(r.ab, p) = get_hit_count(a, p) + get_hit_count(b, p)
            /\ get_hit_count(r.ab, p) = get_hit_count(r.ba, p)
            /\ get_hit_count(r.ab_c, p) = get_hit_count(r.a_bc, p)
        /\ r.ab.start_time = Min(a.start_time, b.start_time)
        /\ r.ab.end_time = Max(a.end_time, b.end_time)

\* merged operands that share a probe, the first started later than the
\* second and not finished, the second finished
C6_Witness ==
    /\ mout # None
    /\ LET a == Unwrap(ma)
           b == Unwrap(mb)
           c == Unwrap(mc)
       IN
       /\ DOMAIN a.probe_hits = {1}
       /\ DOMAIN b.probe_hits = {1, 2}
       /\ DOMAIN c.probe_hits = {2}
       /\ a.start_time > b.start_time
       /\ a.end_time < b.end_time
       /\ get_hit_count(Unwrap(mout).ab, 1) = 2

---------------------------------------------------------------------------
(* Claims about the report *)

\* the ids of the map's probes of kind LINE on a line
LineProbesOn(line) ==
    {id \in DOMAIN cmap.probes :
        cmap.probes[id].kind = LINE /\ cmap.probes[id].line = line}

\* the lines that carry a probe of kind LINE
LinesWithLineProbe == {line \in Lines : LineProbesOn(line) # {}}

\* the largest number of a non-empty set of numbers
Largest(S) == CHOOSE m \in S : \A x \in S : x <= m

\* C9: report.lines has one entry per line that carries a Line probe; its
\* hit_count is the largest data count among the Line probes of that line
\* (0 for a probe absent from the data); total_lines counts these lines
\* and covered_lines those with a hit_count above 0.
C9_LineHitCountIsMaximum ==
    report # None =>
        LET r == Unwrap(report) IN
        /\ DOMAIN r.lines = LinesWithLineProbe
        /\ \A line \in LinesWithLineProbe :
            /\ r.lines[line].line = line
            /\ r.lines[line].hit_count =
                 Largest({get_hit_count(rdata, id) : id \in LineProbesOn(line)})
        /\ r.summary.total_lines = Cardinality(LinesWithLineProbe)
        /\ r.summary.covered_lines =
             Cardinality({line \in LinesWithLineProbe : r.lines[line].hit_count > 0})

\* a report over two Line probes of line 10, each hit once, and a Line
\* probe of line 11 never hit
C9_Witness ==
    /\ report # None
    /\ LineProbesOn(10) = {1, 2}
    /\ LineProbesOn(11) = {3}
    /\ get_hit_count(rdata, 1) = 1
    /\ get_hit_count(rdata, 2) = 1
    /\ Unwrap(report).lines[10].hit_count = 1
    /\ Unwrap(report).lines[11].hit_count = 0
    /\ Unwrap(report).summary.total_lines = 2
    /\ Unwrap(report).summary.covered_lines = 1

\* C10: report.functions has one entry per FunctionInfo of the map, in the
\* map's order; its hit_count is the data count of the entry_probe (0 when
\* absent from the data) and it is covered iff that count is above 0.
C10_FunctionCoveragePerFunctionInfo ==
    report # None =>
        LET r == Unwrap(report) IN
        /\ Len(r.functions) = Len(cmap.functions)
        /\ \A i \in 1..Len(cmap.functions) :
            /\ r.functions[i].name = cmap.functions[i].name
            /\ r.functions[i].start_line = cmap.functions[i].start_line
            /\ r.functions[i].end_line = cmap.functions[i].end_line
            /\ r.functions[i].hit_count =
                 get_hit_count(rdata, cmap.functions[i].entry_probe)
            /\ r.functions[i].covered <=>
                 get_hit_count(rdata, cmap.functions[i].entry_probe) > 0

\* a report over two functions, the first entered once, the entry probe of
\* the second absent from the data
C10_Witness ==
    /\ report # None
    /\ Len(cmap.functions) = 2
    /\ cmap.functions[1].name = "helper"
    /\ cmap.functions[2].name = "main"
    /\ get_hit_count(rdata, 3) = 1
    /\ 1 \notin DOMAIN rdata.probe_hits
    /\ Unwrap(report).functions[1].covered
    /\ ~Unwrap(report).functions[2].covered

\* the map's probes of a kind on a line, in the order iter enumerates the
\* probe table
ProbesOn(line, kind, iter) ==
    SelectSeq(iter, LAMBDA id : cmap.probes[id].line = line
                                 /\ cmap.probes[id].kind = kind)

\* the indices of the report's branch entries of a line
EntriesOf(r, line) == {j \in DOMAIN r.branches : r.branches[j].line = line}

\* the report r pairs, on every line, the i-th BranchTrue probe with the
\* i-th BranchFalse probe of the enumeration iter
PairedByIndex(r, iter) ==
    \A line \in Lines :
        LET t == ProbesOn(line, BRANCH_TRUE, iter)
            f == ProbesOn(line, BRANCH_FALSE, iter)
        IN \A i \in 1..Len(t) :
            LET es == {j \in EntriesOf(r, line) : r.branches[j].branch_index = i - 1}
            IN /\ Cardinality(es) = 1
               /\ \A j \in es :
                    /\ r.branches[j].true_count = get_hit_count(rdata, t[i])
                    /\ r.branches[j].false_count =
                         IF i <= Len(f) THEN get_hit_count(rdata, f[i]) ELSE 0
                    /\ r.branches[j].fully_covered <=>
                         (r.branches[j].true_count > 0 /\ r.branches[j].false_count > 0)

\* C11: for every line and every i below the number of BranchTrue probes of
\* the line, the report holds exactly one BranchCoverage with that line and
\* branch_index i; its true_count is the data count of the i-th BranchTrue
\* probe and its false_count the data count of the i-th BranchFalse probe of
\* the line (0 when there is none), i-th being taken in the order in which
\* the probe table was enumerated for this report.
C11_BranchesPairedByIndex ==
    report # None => PairedByIndex(Unwrap(report), Unwrap(enumerated))

\* a report over a line with two BranchTrue probes and one BranchFalse
\* probe: a first branch of which both sides ran once, and a second branch
\* without a false counterpart
C11_Witness ==
    /\ report # None
    /\ \E line \in Lines :
        /\ Cardinality({id \in DOMAIN cmap.probes :
                cmap.probes[id] = ProbeLocation(line, BRANCH_TRUE)}) = 2
        /\ Cardinality({id \in DOMAIN cmap.probes :
                cmap.probes[id] = ProbeLocation(line, BRANCH_FALSE)}) = 1
        /\ \E i, j \in EntriesOf(Unwrap(report), line) :
            /\ Unwrap(report).branches[i].branch_index = 0
            /\ Unwrap(report).branches[i].true_count = 1
            /\ Unwrap(report).branches[i].false_count = 1
            /\ Unwrap(report).branches[i].fully_covered
            /\ Unwrap(report).branches[j].branch_index = 1
            /\ Unwrap(report).branches[j].false_count = 0
            /\ ~Unwrap(report).branches[j].fully_covered

\* the number of the map's probes of a kind on a line
NumProbesOn(line, kind) ==
    Cardinality({id \in DOMAIN cmap.probes :
        cmap.probes[id].line = line /\ cmap.probes[id].kind = kind})

\* C12: a line has as many branch entries as the larger of its number of
\* BranchTrue and its number of BranchFalse probes: the i-th BranchFalse
\* probe of a line without an i-th BranchTrue probe has an entry with
\* branch_index i, true_count 0 and its own data count as false_count.
C12_FalseOnlyBranchReported ==
    report # None =>
        LET r == Unwrap(report) IN
        \A line \in Lines :
            /\ Cardinality(EntriesOf(r, line)) =
                 Max(NumProbesOn(line, BRANCH_TRUE), NumProbesOn(line, BRANCH_FALSE))
            /\ \E iter \in IterationOrders(DOMAIN cmap.probes) :
                LET f == ProbesOn(line, BRANCH_FALSE, iter) IN
                \A i \in (NumProbesOn(line, BRANCH_TRUE) + 1)..Len(f) :
                    \E j \in EntriesOf(r, line) :
                        /\ r.branches[j].branch_index = i - 1
                        /\ r.branches[j].true_count = 0
                        /\ r.branches[j].false_count = get_hit_count(rdata, f[i])

\* C13: the report is a function of the map and the data: every order in
\* which the probe table and the per-line groups can be enumerated gives
\* the report that was produced.
C13_ReportDeterministic ==
    report # None =>
        \A probe_iter \in IterationOrders(DOMAIN cmap.probes) :
            \A line_iter \in IterationOrders(
                    DOMAIN branch_map(cmap, branch_probes(cmap, probe_iter))) :
                from_map_and_data(cmap, rdata, probe_iter, line_iter) = Unwrap(report)

\* the number of indices of a sequence whose entry satisfies Test
CountIf(seq, Test(_)) == Cardinality({i \in DOMAIN seq : Test(seq[i])})

\* C14: the summary of a report counts the report's own entries: the totals
\* are the sizes of lines, functions and branches, the covered counters the
\* numbers of entries flagged covered (fully_covered for a branch).
C14_SummaryCountsEntries ==
    report # None =>
        LET r == Unwrap(report) IN
        /\ r.summary.total_lines = Cardinality(DOMAIN r.lines)
        /\ r.summary.covered_lines =
             Cardinality({line \in DOMAIN r.lines : r.lines[line].covered})
        /\ r.summary.total_functions = Len(r.functions)
        /\ r.summary.covered_functions = CountIf(r.functions, LAMBDA f : f.covered)
        /\ r.summary.total_branches = Len(r.branches)
        /\ r.summary.covered_branches = CountIf(r.branches, LAMBDA b : b.fully_covered)

\* a report with a covered line, a covered function and one branch of
\* which only the true side ran
C14_Witness ==
    /\ report # None
    /\ Unwrap(report).summary.total_lines = 1
    /\ Unwrap(report).summary.covered_lines = 1
    /\ Unwrap(report).summary.total_functions = 1
    /\ Unwrap(report).summary.covered_functions = 1
    /\ Unwrap(report).summary.total_branches = 1
    /\ Unwrap(report).summary.covered_branches = 0
    /\ Unwrap(report).branches[1].true_count = 1

---------------------------------------------------------------------------
(* Claims about summaries *)

RECURSIVE SumOver(_, _, _)
\* the sum of a counter over the reports with index in idx
SumOver(rs, idx, counter) ==
    IF idx = {} THEN 0
    ELSE LET i == CHOOSE x \in idx : TRUE IN
         rs[i].summary[counter] + SumOver(rs, idx \ {i}, counter)

\* the reorderings of a sequence
Reorderings(rs) ==
    {[i \in DOMAIN rs |-> rs[f[i]]] : f \in IterationOrders(DOMAIN rs)}

\* C15: aggregate_summaries returns, in each of the six counters, the sum of
\* that counter over the reports (zero for no report), and returns the same
\* for every reordering of the reports; merge adds other's six counters to
\* self's.
C15_AggregateIsFieldwiseSum ==
    aggregate # None =>
        /\ \A counter \in DOMAIN CoverageSummary_default :
              Unwrap(aggregate)[counter] = SumOver(reports, DOMAIN reports, counter)
        /\ \A rs \in Reorderings(reports) :
              aggregate_summaries(rs) = Unwrap(aggregate)
        /\ \A i \in DOMAIN reports, counter \in DOMAIN CoverageSummary_default :
              CoverageSummary_merge(Unwrap(aggregate), reports[i].summary)[counter]
                 = Unwrap(aggregate)[counter] + reports[i].summary[counter]

\* the aggregate of two reports that differ in every total, both with
\* covered branches
C15_Witness ==
    /\ aggregate # None
    /\ Len(reports) = 2
    /\ reports[1].summary # reports[2].summary
    /\ reports[1].summary.covered_branches = 1
    /\ reports[2].summary.covered_branches = 1
    /\ reports[2].summary.total_lines = 0
    /\ Unwrap(aggregate).covered_branches = 2
    /\ Unwrap(aggregate).total_lines = 1

\* C16: each percentage is exactly 100 when its total counter is 0, whatever
\* its covered counter, and no percentage is the outcome of a division by 0.
C16_PercentOfEmptyTotalIs100 ==
    percents # None =>
        LET s == Unwrap(summary)
            p == Unwrap(percents)
        IN /\ s.total_lines = 0 => p.line = F64(100, 1)
           /\ s.total_functions = 0 => p.function = F64(100, 1)
           /\ s.total_branches = 0 => p.branch = F64(100, 1)
           /\ \A k \in DOMAIN p : p[k].class = "finite" /\ p[k].den # 0

\* the percentages of a summary with no branches but a covered_branches
\* counter of 1, and with one line, covered
C16_Witness ==
    /\ percents # None
    /\ Unwrap(summary).total_branches = 0
    /\ Unwrap(summary).covered_branches = 1
    /\ Unwrap(summary).total_lines = 1
    /\ Unwrap(summary).covered_lines = 1
    /\ Unwrap(percents).branch = F64(100, 1)
    /\ Unwrap(percents).line = F64(100, 1)

---------------------------------------------------------------------------
(* Claims about the map set *)

\* C17: looking up a file that has no map in the CoverageMapSet gives the
\* caller the error NoMapForFile of that file.
C17_UnknownFileIsAnError ==
    got # None =>
        LET file == Unwrap(got).file
            result == Unwrap(got).result
        IN file \notin DOMAIN maps.maps =>
              result # None /\ Unwrap(result) = NoMapForFile(file)

---------------------------------------------------------------------------
(* Claims about the encoded probe id *)

\* the value of the low 56 bits and of the high 8 bits of a 64-bit word
Low56(word) == [word EXCEPT ![8] = 0]
High8(word) == word[8]

\* the data of a thread after one recorded hit
OneHit(id, k) ==
    [probe_hits |-> (id :> [probe_id |-> id, kind |-> k, count |-> 1]),
     start_time |-> clock, end_time |-> 0]

\* C18: while enabled, __coverage_hit(encoded) records exactly one hit, of
\* the probe whose id is the low 56 bits of encoded and whose kind is the
\* high 8 bits; and for an id below 2^56 and a kind in 0..255 it leaves the
\* data as __coverage_hit_ex(id, kind) leaves it.
C18_EncodedHitDecodes ==
    /\ ("__coverage_hit" \in called /\ enabled) =>
          data["A"] = Some(OneHit(Low56(Unwrap(encoded)), High8(Unwrap(encoded))))
    /\ ("__coverage_hit" \in called /\ ~enabled) => data["A"] = None
    /\ (called = {"__coverage_hit", "__coverage_hit_ex"}
           /\ Unwrap(arg_id)[8] = 0 /\ Unwrap(arg_kind) \in 0..255) =>
          /\ data["A"] = data["B"]
          /\ enabled => data["A"] = Some(OneHit(Unwrap(arg_id), Unwrap(arg_kind)))

\* both entry points called, enabled, for the largest id below 2^56 and
\* the kind 255, whose encoded word is negative as an i64
C18_Witness ==
    /\ called = {"__coverage_hit", "__coverage_hit_ex"}
    /\ enabled
    /\ Unwrap(arg_id) = <<255, 255, 255, 255, 255, 255, 255, 0>>
    /\ Unwrap(arg_kind) = 255
    /\ Unwrap(encoded)[8] = 255
    /\ data["A"] # None
    /\ data["A"] = data["B"]

---------------------------------------------------------------------------
(* Claims about the flag racing with record_hit, and about the times *)

\* 1 while thread c is between the two steps of record_hit(p, ..), else 0
Pending(c, p) == IF pc[c].op = "record_hit" /\ pc[c].probe_id = p THEN 1 ELSE 0

\* every count of every thread is the number of its hits recorded since
\* its last reset
CountsAreHitsRecorded ==
    \A c \in Contexts, p \in ProbeIds :
        get_hit_count(With(c), p) + Pending(c, p) = taken[c][p]

\* C19: whatever enable() and disable() calls of other threads fall between
\* the flag load and the update of a record_hit(p, k), the hit is recorded
\* whole (the count of p in the recording thread rises by exactly 1) or not
\* at all (a load that read false changes nothing); no other probe and no
\* other thread's data changes, enable() and disable() change no data, and
\* no count ever differs from the number of hits recorded.
C19_RacingHitWholeOrDropped ==
    /\ []CountsAreHitsRecorded
    /\ [][\A c \in Contexts :
            /\ record_hit_store(c) =>
                 /\ get_hit_count(Unwrap(data'[c]), pc[c].probe_id)
                       = get_hit_count(With(c), pc[c].probe_id) + 1
                 /\ \A q \in ProbeIds \ {pc[c].probe_id} :
                       get_hit_count(Unwrap(data'[c]), q) = get_hit_count(With(c), q)
                 /\ \A b \in Other(c) : data'[b] = data[b]
            /\ \A p \in ProbeIds :
                 (record_hit_load(c, p, KindOf(p)) /\ pc'[c] = Idle) => data' = data
            /\ (enable(c) \/ disable(c)) => (data' = data /\ pc' = pc)]_vars

\* the update of a hit has just run with the flag false: another thread
\* disabled coverage between the flag load, which read true, and the update
C19_Witness ==
    \E c \in Contexts, p \in ProbeIds :
        /\ last.op = "record_hit" /\ last.ctx = c
        /\ ~enabled
        /\ taken[c][p] = 1
        /\ get_hit_count(With(c), p) = 1
        /\ \A b \in Other(c) : data[b] = None

\* C20: with a clock that never goes back, the data of a thread has
\* end_time 0 as long as finish has not run since the data was created or
\* last reset, and an end_time at or after start_time once finish has run;
\* so has every exported copy.
C20_EndTimeZeroUntilFinish ==
    \A c \in Contexts :
        /\ (data[c] # None /\ exported[c] = None) => Unwrap(data[c]).end_time = 0
        /\ (data[c] = None) => exported[c] = None
        /\ exported[c] # None =>
             /\ Unwrap(data[c]).end_time >= Unwrap(data[c]).start_time
             /\ Unwrap(exported[c]).end_time >= Unwrap(exported[c]).start_time

\* a thread whose data was created, hit, and finished at a later time, and
\* another whose finished data was reset
C20_Witness ==
    \E c \in Contexts :
        /\ exported[c] # None
        /\ probes_hit(Unwrap(data[c])) > 0
        /\ Unwrap(data[c]).end_time > Unwrap(data[c]).start_time
        /\ \E b \in Other(c) :
            /\ last.op = "reset" /\ last.ctx = b /\ last.finished
            /\ Unwrap(data[b]).end_time = 0

---------------------------------------------------------------------------
(* More claims about the report and the map *)

\* C21: in every report, a line entry and a function entry are covered
\* exactly when their hit_count is above 0, and a branch entry is
\* fully_covered exactly when both its counts are above 0.
C21_FlagsFollowCounts ==
    report # None =>
        LET r == Unwrap(report) IN
        /\ \A line \in DOMAIN r.lines :
              r.lines[line].covered <=> r.lines[line].hit_count > 0
        /\ \A i \in DOMAIN r.functions :
              r.functions[i].covered <=> r.functions[i].hit_count > 0
        /\ \A i \in DOMAIN r.branches :
              r.branches[i].fully_covered <=>
                 (r.branches[i].true_count > 0 /\ r.branches[i].false_count > 0)

\* a report with a line never hit, a function never entered and a branch
\* of which both sides ran
C21_Witness ==
    /\ report # None
    /\ \E line \in DOMAIN Unwrap(report).lines :
          Unwrap(report).lines[line].hit_count = 0
    /\ \E i \in DOMAIN Unwrap(report).functions :
          Unwrap(report).functions[i].hit_count = 0
    /\ \E i \in DOMAIN Unwrap(report).branches :
          /\ Unwrap(report).branches[i].true_count = 1
          /\ Unwrap(report).branches[i].false_count = 1
          /\ Unwrap(report).branches[i].fully_covered

\* C22: after any add_probe and add_function calls on a new map,
\* total_probes is the number of distinct ids added (an id added again
\* replaces its location and is counted once) and get_location(id) is the
\* location last added for id, or none for an id never added.
C22_TotalProbesCountsIds ==
    /\ imap.total_probes = Cardinality({id \in MapProbeIds : added[id] # None})
    /\ imap.total_probes = Cardinality(DOMAIN imap.probes)
    /\ \A id \in MapProbeIds : get_location(imap, id) = added[id]

\* a map after three add_probe calls, two of them for the same id at
\* different locations, and an add_function call
C22_Witness ==
    /\ adds = 3
    /\ imap.total_probes = 2
    /\ added[1] = Some(ProbeLocation(11, BRANCH_TRUE))
    /\ added[2] = Some(ProbeLocation(10, LINE))
    /\ added[3] = None
    /\ Len(imap.functions) = 1

\* the data without the hits of the ids that are no key of map.probes
MappedHits(cov) ==
    [cov EXCEPT !.probe_hits =
        [id \in DOMAIN cov.probe_hits \cap DOMAIN cmap.probes |-> cov.probe_hits[id]]]

\* the ids the map names: the keys of probes and the entry probes of functions
MapIds ==
    DOMAIN cmap.probes \cup {cmap.functions[i].entry_probe : i \in DOMAIN cmap.functions}

\* the data without the hits of the ids that the map does not name
NamedHits(cov) ==
    [cov EXCEPT !.probe_hits =
        [id \in DOMAIN cov.probe_hits \cap MapIds |-> cov.probe_hits[id]]]

\* the generated report is the one from_map_and_data gives for cov, under
\* the iteration order the generation saw
ReportIsOf(cov) ==
    \E probe_iter \in IterationOrders(DOMAIN cmap.probes) :
        \E line_iter \in IterationOrders(
                DOMAIN branch_map(cmap, branch_probes(cmap, probe_iter))) :
            /\ branch_probes(cmap, probe_iter) = Unwrap(enumerated)
            /\ Unwrap(report) = from_map_and_data(cmap, cov, probe_iter, line_iter)

\* report.lines has exactly the lines that carry a Line probe in the map, and
\* a line whose Line probes were never hit has hit_count 0
LinesAreLineProbeLines ==
    LET r == Unwrap(report) IN
    /\ DOMAIN r.lines = LinesWithLineProbe
    /\ \A line \in LinesWithLineProbe :
          (LineProbesOn(line) \cap DOMAIN rdata.probe_hits = {})
             => (r.lines[line].hit_count = 0 /\ ~r.lines[line].covered)

\* C29 as stated: report.lines has exactly the lines that carry a Line probe
\* in the map; a line whose Line probes were never hit has hit_count 0; and
\* the report depends only on the probes of the map, so it is the one that
\* the data without the hits of ids outside map.probes gives.
C29_ReportReadsMappedProbesOnly ==
    report # None => (LinesAreLineProbeLines /\ ReportIsOf(MappedHits(rdata)))

\* C29, amended: report.lines has exactly the lines that carry a Line probe
\* in the map; a line whose Line probes were never hit has hit_count 0; and
\* the report is the one that the data gives without the hits of the ids that
\* are neither a key of map.probes nor the entry_probe of a function of the map.
C29_ReportReadsNamedIdsOnly ==
    report # None => (LinesAreLineProbeLines /\ ReportIsOf(NamedHits(rdata)))

\* a report over a map whose only probe is a Line probe on line 11, never
\* hit, and whose function has entry probe 1, from data holding a hit of
\* probe 1 and a hit of probe 3, which the map does not name
C29_Witness ==
    /\ report # None
    /\ DOMAIN cmap.probes = {2}
    /\ cmap.probes[2] = ProbeLocation(11, LINE)
    /\ Len(cmap.functions) = 1
    /\ cmap.functions[1].entry_probe = 1
    /\ get_hit_count(rdata, 1) = 1
    /\ get_hit_count(rdata, 3) = 1
    /\ DOMAIN Unwrap(report).lines = {11}
    /\ Unwrap(report).lines[11].hit_count = 0
    /\ Unwrap(report).functions[1].covered

\* the count a thread's slot holds for a probe: 0 before the slot exists
CountIn(slot, p) == IF slot = None THEN 0 ELSE get_hit_count(Unwrap(slot), p)

\* C23: in every step that is not a reset of the context, no count of the
\* context decreases; the store of an enabled hit of probe p leaves count 1
\* when p had no entry, raises p's count by exactly 1 otherwise, and changes
\* no other count of the context nor any count of another context.
C23_CountsNeverDecrease ==
    [][\A c \in Contexts :
          /\ ~reset(c) =>
                \A p \in ProbeIds : CountIn(data'[c], p) >= CountIn(data[c], p)
          /\ record_hit_store(c) =>
                /\ (data[c] = None \/ pc[c].probe_id \notin DOMAIN Unwrap(data[c]).probe_hits)
                      => Unwrap(data'[c]).probe_hits[pc[c].probe_id].count = 1
                /\ CountIn(data'[c], pc[c].probe_id) = CountIn(data[c], pc[c].probe_id) + 1
                /\ \A q \in ProbeIds \ {pc[c].probe_id} :
                      CountIn(data'[c], q) = CountIn(data[c], q)
                /\ \A b \in Contexts \ {c}, q \in ProbeIds :
                      CountIn(data'[b], q) = CountIn(data[b], q)]_vars

\* thread A has just stored its second hit of probe 1 with collection
\* switched off meanwhile, after exporting the first and hitting probe 2
C23_Witness ==
    /\ last = [op |-> "record_hit", ctx |-> "A"]
    /\ ~enabled
    /\ CountIn(data["A"], 1) = 2
    /\ CountIn(data["A"], 2) = 1
    /\ exported["A"] # None
    /\ get_hit_count(Unwrap(exported["A"]), 1) = 1

\* C28: reset and export_coverage leave the enabled flag as it was; enable
\* and disable leave every context's probe counts, start_time and end_time
\* as they were.
C28_FlagAndDataDisjoint ==
    [][\A c \in Contexts :
          /\ (reset(c) \/ export_coverage(c)) => enabled' = enabled
          /\ (enable(c) \/ disable(c)) => data' = data]_vars

\* thread A has just reset its data, which held a hit, while collection
\* was on, and thread B still holds a hit
C28_Witness ==
    /\ last.op = "reset"
    /\ last.ctx = "A"
    /\ last.had_hits
    /\ enabled
    /\ CountIn(data["A"], 1) = 0
    /\ CountIn(data["B"], 1) = 1

\* C24: remove_workflow(id) removes the workflow; when id was the selected
\* workflow, selected_workflow, selected_context and selected_preset are all
\* None afterwards, whatever context and preset were selected; when it was
\* not, the three selection fields are as before.
C24_RemovalClearsSelection ==
    [][\A id \in WorkflowIds :
          remove_workflow(id) =>
              /\ ~IndexMap_contains_key(store'.workflows, id)
              /\ \A w \in WorkflowIds \ {id} :
                    IndexMap_get(store'.workflows, w) = IndexMap_get(store.workflows, w)
              /\ IF store.selected_workflow = Some(id)
                 THEN /\ store'.selected_workflow = None
                      /\ store'.selected_context = None
                      /\ store'.selected_preset = None
                 ELSE /\ store'.selected_workflow = store.selected_workflow
                      /\ store'.selected_context = store.selected_context
                      /\ store'.selected_preset = store.selected_preset]_vars

\* w1 has just been removed while w1, its context c1 and its preset p1 were
\* selected and w2 was in the store too
C24_Witness ==
    /\ store_last.op = "remove_workflow"
    /\ store_last.id = "w1"
    /\ store_last.returned # None
    /\ store_last.before.selected_workflow = Some("w1")
    /\ store_last.before.selected_context = Some("c1")
    /\ store_last.before.selected_preset = Some("p1")
    /\ IndexMap_keys(store.workflows) = {"w2"}
    /\ store.selected_workflow = None

\* the set of the elements of a sequence
Elements(seq) == {seq[i] : i \in DOMAIN seq}

\* a sequence without one element
Without(seq, x) == SelectSeq(seq, LAMBDA e : e # x)

\* C25: after start(a), move_to(b), end() on a list of distinct ids, with a
\* at index from and b at index to, from # to, end() returned the original
\* list with a taken out and put back at index to, a permutation of the
\* original, together with from and to; it returned none when from = to or
\* when a or b is not in the list; and after every end() active_id,
\* active_index and over_index are none and the stored list is as given.
C25_EndReturnsReordering ==
    /\ (Len(trail) = 3 /\ trail[1].op = "start" /\ trail[2].op = "move_to"
          /\ trail[3].op = "end") =>
          LET a == trail[1].id
              b == trail[2].id
              from == Unwrap(position(given, a))
              to == Unwrap(position(given, b))
          IN
          IF a \in Elements(given) /\ b \in Elements(given) /\ a # b
          THEN /\ sort_result # None
               /\ Unwrap(sort_result).from = from
               /\ Unwrap(sort_result).to = to
               /\ Len(Unwrap(sort_result).items) = Len(given)
               /\ Elements(Unwrap(sort_result).items) = Elements(given)
               /\ Unwrap(sort_result).items[to + 1] = a
               /\ Without(Unwrap(sort_result).items, a) = Without(given, a)
          ELSE sort_result = None
    /\ (trail # <<>> /\ trail[Len(trail)].op = "end") =>
          /\ Unwrap(sortable).active_id = None
          /\ Unwrap(sortable).active_index = None
          /\ Unwrap(sortable).over_index = None
    /\ sortable # None => Unwrap(sortable).items = given

\* the list a, b, c, d after start(b), move_to(d), end(): b went from index
\* 1 to index 3
C25_Witness ==
    /\ given = <<"a", "b", "c", "d">>
    /\ trail = <<[op |-> "start", id |-> "b"], [op |-> "move_to", id |-> "d"],
                 [op |-> "end", id |-> "-"]>>
    /\ sort_result = Some(SortResult(<<"a", "c", "d", "b">>, 1, 3))
    /\ Unwrap(sortable).active_id = None

\* C26: after remove_node(id) no edge has id as source or target, id is no
\* key of nodes and no member of selected_nodes, every other node is as
\* before and in the order it had, and the edges not connected to id are as
\* before and in the order they had.
C26_RemoveNodeDropsItsEdges ==
    [][\A id \in NodeIds :
          remove_node(id) =>
              /\ \A i \in DOMAIN canvas'.edges :
                    canvas'.edges[i].source # id /\ canvas'.edges[i].target # id
              /\ ~IndexMap_contains_key(canvas'.nodes, id)
              /\ ~contains(canvas'.selected_nodes, id)
              /\ canvas'.nodes = SelectSeq(canvas.nodes, LAMBDA n : n.id # id)
              /\ \A e \in EdgeIds :
                    LET before == IndexMap_get(canvas.edges, e) IN
                    (before # None /\ Unwrap(before).source # id
                        /\ Unwrap(before).target # id)
                       => IndexMap_get(canvas'.edges, e) = before
              /\ \A i, j \in DOMAIN canvas'.edges :
                    i < j =>
                       \E k, l \in DOMAIN canvas.edges :
                          /\ k < l
                          /\ canvas.edges[k] = canvas'.edges[i]
                          /\ canvas.edges[l] = canvas'.edges[j]]_vars

\* node 1 has just been removed while it was selected and had an edge
\* coming in; nodes 2 and 3 and the edge between them are still there
C26_Witness ==
    /\ canvas_last.op = "remove_node"
    /\ canvas_last.id = "1"
    /\ canvas_last.returned # None
    /\ canvas_last.was_selected
    /\ canvas_last.incoming
    /\ ~canvas_last.outgoing
    /\ IndexMap_keys(canvas.nodes) = {"2", "3"}
    /\ canvas.edges = <<Edge("e2", "2", "3")>>

\* C27: while a guard is alive and no thread calls disable(), collection
\* stays enabled: a step that is not a call of disable() and that leaves a
\* guard alive leaves the flag true when it was true, also when the guard
\* dropped in the step is not the one made last.
C27_EnabledWhileGuardAlive ==
    [][(/\ enabled
        /\ guards' # EmptyBag
        /\ ~\E c \in Contexts : disable(c)) => enabled']_vars

\* the guard made while collection was off has been dropped, collection is
\* off, and the guard made after it, while collection was on, is alive
OverlapLeavesCollectionOff ==
    /\ last.op = "drop"
    /\ ~last.was_enabled
    /\ ~enabled
    /\ guards = SetToBag({CoverageGuard(TRUE)})

\* no covered counter of a summary exceeds its total
CoveredWithinTotal(s) ==
    /\ s.covered_lines <= s.total_lines
    /\ s.covered_functions <= s.total_functions
    /\ s.covered_branches <= s.total_branches

\* C30: in the summary of every report from_map_and_data produced, in the
\* aggregate of such reports and in every summary merged from such
\* summaries, covered_lines <= total_lines, covered_functions <=
\* total_functions and covered_branches <= total_branches.
C30_CoveredWithinTotal ==
    \A s \in SummariesAtHand : CoveredWithinTotal(s)

\* two files reported, one fully covered and one with its line and its
\* function covered and its branch half covered, aggregated, and the
\* aggregate merged twice into running
C30_Witness ==
    /\ Len(freports) = 2
    /\ freports[1].summary.covered_branches = 1
    /\ freports[2].summary.covered_lines = 1
    /\ freports[2].summary.covered_functions = 1
    /\ freports[2].summary.covered_branches = 0
    /\ freports[2].summary.total_branches = 1
    /\ total = Some(aggregate_summaries(freports))
    /\ merges = 2
    /\ running.covered_lines = 4
    /\ running.total_lines = 4
    /\ running.covered_branches = 2
    /\ running.total_branches = 4

\* the same for the report of any map that add_probe and add_function build
ReportCoveredWithinTotal ==
    report # None => CoveredWithinTotal(Unwrap(report).summary)

====
